---- MODULE Spec2Model ----
(***************************************************************************)
(* A model of substrate-system/anchor (src/src/index.ts): the Anchor       *)
(* class (add, remove, removeAll, urlify, hasAnchorJSLink), the anchor()   *)
(* convenience function, _getElements and _addBaselineStyles, acting on a  *)
(* small DOM.                                                              *)
(*                                                                         *)
(* Strings are sequences of one-character tokens, <<"a", "b">> for "ab",   *)
(* so that slicing, searching and concatenation are computed as the code   *)
(* computes them.  A character is a UTF-16 code unit; charOf names the     *)
(* ones that a TLA+ string cannot hold: "NBSP" (U+00A0), "BS" (\b), "VT"   *)
(* (\v), "GRAVE" (U+0060), "E9CB" (the default icon), and the code unit    *)
(* in decimal for the others ("#169" for U+00A9).                          *)
(***************************************************************************)
EXTENDS Integers, Sequences, FiniteSets, TLC

---------------------------------------------------------------------------
(* Strings *)

\* The empty string.
Empty == <<>>

\* s.indexOf(sub): the index (from 0) of the first occurrence, or -1.
indexOf(s, sub) ==
    LET hits == {i \in 1..(Len(s) - Len(sub) + 1) :
                    SubSeq(s, i, i + Len(sub) - 1) = sub}
    IN  IF hits = {} THEN -1
        ELSE (CHOOSE i \in hits : \A j \in hits : i <= j) - 1

\* list.indexOf(x) on an array: the first index (from 0) holding x, or -1.
arrayIndexOf(list, x) ==
    LET hits == {i \in 1..Len(list) : list[i] = x}
    IN  IF hits = {} THEN -1
        ELSE (CHOOSE i \in hits : \A j \in hits : i <= j) - 1

\* s.substring(0, n) for an integer n: a negative n counts as 0.
substring(s, n) ==
    IF n <= 0 THEN Empty
    ELSE IF n >= Len(s) THEN s
    ELSE SubSeq(s, 1, n)

\* Whether s ends with suffix.
endsWith(s, suffix) ==
    /\ Len(suffix) <= Len(s)
    /\ SubSeq(s, Len(s) - Len(suffix) + 1, Len(s)) = suffix

\* The decimal digits of a natural number, as a string ('' + count).
RECURSIVE numberToString(_)
numberToString(n) ==
    LET digit == <<"0", "1", "2", "3", "4", "5", "6", "7", "8", "9">>
    IN  IF n < 10 THEN <<digit[n + 1]>>
        ELSE numberToString(n \div 10) \o <<digit[(n % 10) + 1]>>

\* The characters of s at the indices in keep, in order (from index i on).
RECURSIVE pick(_, _, _)
pick(s, keep, i) ==
    IF i > Len(s) THEN Empty
    ELSE (IF i \in keep THEN <<s[i]>> ELSE Empty) \o pick(s, keep, i + 1)

---------------------------------------------------------------------------
(* Numbers: opts.truncate is a JavaScript number.  A number is modelled as *)
(* int + 1/2 when frac, so that fractional values reach Math.floor.        *)

Number(n, f) == [int |-> n, frac |-> f]

\* JavaScript truthiness of a number: 0 (and a missing value) is falsy.
truthy(x) == x.int # 0 \/ x.frac

\* Math.floor
mathFloor(x) == Number(x.int, FALSE)

\* ToIntegerOrInfinity, as substring applies it to its end argument:
\* truncation toward zero.
toInteger(x) == IF x.frac /\ x.int < 0 THEN x.int + 1 ELSE x.int

\* The default of opts.truncate (index.ts line 50).
DefaultTruncate == 64

---------------------------------------------------------------------------
(* Characters *)

\* The characters U+0020 to U+005F and U+0061 to U+007E, in order.
AsciiLow ==
    " !\"#$%&'()*+,-./0123456789:;<=>?@ABCDEFGHIJKLMNOPQRSTUVWXYZ[\\]^_"

AsciiHigh == "abcdefghijklmnopqrstuvwxyz{|}~"

\* The characters with a name of their own: <<code unit, name>>.
Named ==
    {<<8, "BS">>, <<9, "\t">>, <<10, "\n">>, <<11, "VT">>, <<12, "FF">>,
     <<13, "\r">>, <<96, "GRAVE">>, <<160, "NBSP">>, <<8232, "LS">>,
     <<8233, "PS">>, <<59851, "E9CB">>}

\* The characters of the TLA+ string str, as a string of the model.
chars(str) == [i \in 1..Len(str) |-> SubSeq(str, i, i)]

\* The index (from 1) of the character c in the TLA+ string str, or 0.
indexIn(str, c) ==
    LET hits == {k \in 1..Len(str) : SubSeq(str, k, k) = c}
    IN  IF Len(c) # 1 \/ hits = {} THEN 0 ELSE CHOOSE k \in hits : TRUE

\* The value of a digit in base 16.
digitValue(c) ==
    LET small == indexIn("0123456789abcdef", c)
    IN  IF small # 0 THEN small - 1 ELSE indexIn("0123456789ABCDEF", c) - 1

\* The greatest code point.
MaxCodePoint == 1114111

\* The number the digits spell in the base, from acc on; a number above
\* MaxCodePoint stays above it.
RECURSIVE numberOf(_, _, _)
numberOf(digits, base, acc) ==
    IF Len(digits) = 0 THEN acc
    ELSE numberOf(Tail(digits), base,
                  IF acc > MaxCodePoint THEN acc
                  ELSE acc * base + digitValue(Head(digits)))

\* The number that the TLA+ string str spells in base 16.
hex(str) == numberOf(str, 16, 0)

\* The name n goes by when names holds its entries of Named.
nameAmong(n, names) ==
    IF names # {} THEN (CHOOSE p \in names : TRUE)[2]
    ELSE IF n \in 32..95 THEN SubSeq(AsciiLow, n - 31, n - 31)
    ELSE IF n \in 97..126 THEN SubSeq(AsciiHigh, n - 96, n - 96)
    ELSE "#" \o ToString(n)

\* String.fromCharCode(n): the token of the UTF-16 code unit n.
charOf(n) == nameAmong(n, {p \in Named : p[1] = n})

\* The code unit c is when names holds its entries of Named.
codeAmong(c, names) ==
    IF names # {} THEN (CHOOSE p \in names : TRUE)[1]
    ELSE IF Len(c) > 1 THEN numberOf(Tail(c), 10, 0)
    ELSE IF indexIn(AsciiLow, c) # 0 THEN indexIn(AsciiLow, c) + 31
    ELSE indexIn(AsciiHigh, c) + 96

\* c.charCodeAt(0): the UTF-16 code unit of the token c.
codeOf(c) == codeAmong(c, {p \in Named : p[2] = c})

\* The code units of the code point n in UTF-16.
utf16(n) ==
    IF n < 65536 THEN <<n>>
    ELSE <<55296 + ((n - 65536) \div 1024), 56320 + ((n - 65536) % 1024)>>

\* The string of a sequence of code units.
charsOf(units) == [k \in 1..Len(units) |-> charOf(units[k])]

\* Every s[i] in order, joined (from index i on).
RECURSIVE join(_, _)
join(s, i) == IF i > Len(s) THEN Empty ELSE s[i] \o join(s, i + 1)

---------------------------------------------------------------------------
(* urlify (index.ts lines 99-128) *)

\* The characters String.prototype.trim removes: the white space and the
\* line terminators of JavaScript.
WhiteSpace ==
    {"\t", "\n", "VT", "FF", "\r", " ", "NBSP", "#5760", "#8192", "#8193",
     "#8194", "#8195", "#8196", "#8197", "#8198", "#8199", "#8200", "#8201",
     "#8202", "LS", "PS", "#8239", "#8287", "#12288", "#65279"}

\* The line terminators of a JavaScript regular expression (^ and $ under
\* the m flag).
LineTerminators == {"\n", "\r", "LS", "PS"}

\* The class nonsafeChars of line 108.
nonsafeChars ==
    {"&", " ", "+", "$", ",", ":", ";", "=", "?", "@", "\"", "#", "{", "}",
     "|", "^", "~", "[", "GRAVE", "%", "!", "'", "<", ">", "]", ".", "/",
     "(", ")", "*", "\\", "\n", "\t", "BS", "VT", "NBSP"}

\* The named character references of HTML, one word each: the name, then
\* ';' or, for a name that is also recognised without its closing
\* semicolon, ':', then the UTF-16 code units it stands for in base 16.
\* The names of a line start with the same letter.
NamedCharRefs ==
    << "AElig:c6 AMP:26 Aacute:c1 Abreve;102 Acirc:c2 Acy;410 Afr;d835,dd04",
       "Agrave:c0 Alpha;391 Amacr;100 And;2a53 Aogon;104 Aopf;d835,dd38",
       "ApplyFunction;2061 Aring:c5 Ascr;d835,dc9c Assign;2254 Atilde:c3 Auml:c4",
       "Backslash;2216 Barv;2ae7 Barwed;2306 Bcy;411 Because;2235",
       "Bernoullis;212c Beta;392 Bfr;d835,dd05 Bopf;d835,dd39 Breve;2d8",
       "Bscr;212c Bumpeq;224e",
       "CHcy;427 COPY:a9 Cacute;106 Cap;22d2 CapitalDifferentialD;2145",
       "Cayleys;212d Ccaron;10c Ccedil:c7 Ccirc;108 Cconint;2230 Cdot;10a",
       "Cedilla;b8 CenterDot;b7 Cfr;212d Chi;3a7 CircleDot;2299 CircleMinus;2296",
       "CirclePlus;2295 CircleTimes;2297 ClockwiseContourIntegral;2232",
       "CloseCurlyDoubleQuote;201d CloseCurlyQuote;2019 Colon;2237 Colone;2a74",
       "Congruent;2261 Conint;222f ContourIntegral;222e Copf;2102 Coproduct;2210",
       "CounterClockwiseContourIntegral;2233 Cross;2a2f Cscr;d835,dc9e Cup;22d3",
       "CupCap;224d",
       "DD;2145 DDotrahd;2911 DJcy;402 DScy;405 DZcy;40f Dagger;2021 Darr;21a1",
       "Dashv;2ae4 Dcaron;10e Dcy;414 Del;2207 Delta;394 Dfr;d835,dd07",
       "DiacriticalAcute;b4 DiacriticalDot;2d9 DiacriticalDoubleAcute;2dd",
       "DiacriticalGrave;60 DiacriticalTilde;2dc Diamond;22c4 DifferentialD;2146",
       "Dopf;d835,dd3b Dot;a8 DotDot;20dc DotEqual;2250",
       "DoubleContourIntegral;222f DoubleDot;a8 DoubleDownArrow;21d3",
       "DoubleLeftArrow;21d0 DoubleLeftRightArrow;21d4 DoubleLeftTee;2ae4",
       "DoubleLongLeftArrow;27f8 DoubleLongLeftRightArrow;27fa",
       "DoubleLongRightArrow;27f9 DoubleRightArrow;21d2 DoubleRightTee;22a8",
       "DoubleUpArrow;21d1 DoubleUpDownArrow;21d5 DoubleVerticalBar;2225",
       "DownArrow;2193 DownArrowBar;2913 DownArrowUpArrow;21f5 DownBreve;311",
       "DownLeftRightVector;2950 DownLeftTeeVector;295e DownLeftVector;21bd",
       "DownLeftVectorBar;2956 DownRightTeeVector;295f DownRightVector;21c1",
       "DownRightVectorBar;2957 DownTee;22a4 DownTeeArrow;21a7 Downarrow;21d3",
       "Dscr;d835,dc9f Dstrok;110",
       "ENG;14a ETH:d0 Eacute:c9 Ecaron;11a Ecirc:ca Ecy;42d Edot;116",
       "Efr;d835,dd08 Egrave:c8 Element;2208 Emacr;112 EmptySmallSquare;25fb",
       "EmptyVerySmallSquare;25ab Eogon;118 Eopf;d835,dd3c Epsilon;395",
       "Equal;2a75 EqualTilde;2242 Equilibrium;21cc Escr;2130 Esim;2a73 Eta;397",
       "Euml:cb Exists;2203 ExponentialE;2147",
       "Fcy;424 Ffr;d835,dd09 FilledSmallSquare;25fc FilledVerySmallSquare;25aa",
       "Fopf;d835,dd3d ForAll;2200 Fouriertrf;2131 Fscr;2131",
       "GJcy;403 GT:3e Gamma;393 Gammad;3dc Gbreve;11e Gcedil;122 Gcirc;11c",
       "Gcy;413 Gdot;120 Gfr;d835,dd0a Gg;22d9 Gopf;d835,dd3e GreaterEqual;2265",
       "GreaterEqualLess;22db GreaterFullEqual;2267 GreaterGreater;2aa2",
       "GreaterLess;2277 GreaterSlantEqual;2a7e GreaterTilde;2273 Gscr;d835,dca2",
       "Gt;226b",
       "HARDcy;42a Hacek;2c7 Hat;5e Hcirc;124 Hfr;210c HilbertSpace;210b",
       "Hopf;210d HorizontalLine;2500 Hscr;210b Hstrok;126 HumpDownHump;224e",
       "HumpEqual;224f",
       "IEcy;415 IJlig;132 IOcy;401 Iacute:cd Icirc:ce Icy;418 Idot;130 Ifr;2111",
       "Igrave:cc Im;2111 Imacr;12a ImaginaryI;2148 Implies;21d2 Int;222c",
       "Integral;222b Intersection;22c2 InvisibleComma;2063 InvisibleTimes;2062",
       "Iogon;12e Iopf;d835,dd40 Iota;399 Iscr;2110 Itilde;128 Iukcy;406 Iuml:cf",
       "Jcirc;134 Jcy;419 Jfr;d835,dd0d Jopf;d835,dd41 Jscr;d835,dca5 Jsercy;408",
       "Jukcy;404",
       "KHcy;425 KJcy;40c Kappa;39a Kcedil;136 Kcy;41a Kfr;d835,dd0e",
       "Kopf;d835,dd42 Kscr;d835,dca6",
       "LJcy;409 LT:3c Lacute;139 Lambda;39b Lang;27ea Laplacetrf;2112 Larr;219e",
       "Lcaron;13d Lcedil;13b Lcy;41b LeftAngleBracket;27e8 LeftArrow;2190",
       "LeftArrowBar;21e4 LeftArrowRightArrow;21c6 LeftCeiling;2308",
       "LeftDoubleBracket;27e6 LeftDownTeeVector;2961 LeftDownVector;21c3",
       "LeftDownVectorBar;2959 LeftFloor;230a LeftRightArrow;2194",
       "LeftRightVector;294e LeftTee;22a3 LeftTeeArrow;21a4 LeftTeeVector;295a",
       "LeftTriangle;22b2 LeftTriangleBar;29cf LeftTriangleEqual;22b4",
       "LeftUpDownVector;2951 LeftUpTeeVector;2960 LeftUpVector;21bf",
       "LeftUpVectorBar;2958 LeftVector;21bc LeftVectorBar;2952 Leftarrow;21d0",
       "Leftrightarrow;21d4 LessEqualGreater;22da LessFullEqual;2266",
       "LessGreater;2276 LessLess;2aa1 LessSlantEqual;2a7d LessTilde;2272",
       "Lfr;d835,dd0f Ll;22d8 Lleftarrow;21da Lmidot;13f LongLeftArrow;27f5",
       "LongLeftRightArrow;27f7 LongRightArrow;27f6 Longleftarrow;27f8",
       "Longleftrightarrow;27fa Longrightarrow;27f9 Lopf;d835,dd43",
       "LowerLeftArrow;2199 LowerRightArrow;2198 Lscr;2112 Lsh;21b0 Lstrok;141",
       "Lt;226a",
       "Map;2905 Mcy;41c MediumSpace;205f Mellintrf;2133 Mfr;d835,dd10",
       "MinusPlus;2213 Mopf;d835,dd44 Mscr;2133 Mu;39c",
       "NJcy;40a Nacute;143 Ncaron;147 Ncedil;145 Ncy;41d",
       "NegativeMediumSpace;200b NegativeThickSpace;200b NegativeThinSpace;200b",
       "NegativeVeryThinSpace;200b NestedGreaterGreater;226b NestedLessLess;226a",
       "NewLine;a Nfr;d835,dd11 NoBreak;2060 NonBreakingSpace;a0 Nopf;2115",
       "Not;2aec NotCongruent;2262 NotCupCap;226d NotDoubleVerticalBar;2226",
       "NotElement;2209 NotEqual;2260 NotEqualTilde;2242,338 NotExists;2204",
       "NotGreater;226f NotGreaterEqual;2271 NotGreaterFullEqual;2267,338",
       "NotGreaterGreater;226b,338 NotGreaterLess;2279",
       "NotGreaterSlantEqual;2a7e,338 NotGreaterTilde;2275",
       "NotHumpDownHump;224e,338 NotHumpEqual;224f,338 NotLeftTriangle;22ea",
       "NotLeftTriangleBar;29cf,338 NotLeftTriangleEqual;22ec NotLess;226e",
       "NotLessEqual;2270 NotLessGreater;2278 NotLessLess;226a,338",
       "NotLessSlantEqual;2a7d,338 NotLessTilde;2274",
       "NotNestedGreaterGreater;2aa2,338 NotNestedLessLess;2aa1,338",
       "NotPrecedes;2280 NotPrecedesEqual;2aaf,338 NotPrecedesSlantEqual;22e0",
       "NotReverseElement;220c NotRightTriangle;22eb",
       "NotRightTriangleBar;29d0,338 NotRightTriangleEqual;22ed",
       "NotSquareSubset;228f,338 NotSquareSubsetEqual;22e2",
       "NotSquareSuperset;2290,338 NotSquareSupersetEqual;22e3",
       "NotSubset;2282,20d2 NotSubsetEqual;2288 NotSucceeds;2281",
       "NotSucceedsEqual;2ab0,338 NotSucceedsSlantEqual;22e1",
       "NotSucceedsTilde;227f,338 NotSuperset;2283,20d2 NotSupersetEqual;2289",
       "NotTilde;2241 NotTildeEqual;2244 NotTildeFullEqual;2247",
       "NotTildeTilde;2249 NotVerticalBar;2224 Nscr;d835,dca9 Ntilde:d1 Nu;39d",
       "OElig;152 Oacute:d3 Ocirc:d4 Ocy;41e Odblac;150 Ofr;d835,dd12 Ograve:d2",
       "Omacr;14c Omega;3a9 Omicron;39f Oopf;d835,dd46 OpenCurlyDoubleQuote;201c",
       "OpenCurlyQuote;2018 Or;2a54 Oscr;d835,dcaa Oslash:d8 Otilde:d5",
       "Otimes;2a37 Ouml:d6 OverBar;203e OverBrace;23de OverBracket;23b4",
       "OverParenthesis;23dc",
       "PartialD;2202 Pcy;41f Pfr;d835,dd13 Phi;3a6 Pi;3a0 PlusMinus;b1",
       "Poincareplane;210c Popf;2119 Pr;2abb Precedes;227a PrecedesEqual;2aaf",
       "PrecedesSlantEqual;227c PrecedesTilde;227e Prime;2033 Product;220f",
       "Proportion;2237 Proportional;221d Pscr;d835,dcab Psi;3a8",
       "QUOT:22 Qfr;d835,dd14 Qopf;211a Qscr;d835,dcac",
       "RBarr;2910 REG:ae Racute;154 Rang;27eb Rarr;21a0 Rarrtl;2916 Rcaron;158",
       "Rcedil;156 Rcy;420 Re;211c ReverseElement;220b ReverseEquilibrium;21cb",
       "ReverseUpEquilibrium;296f Rfr;211c Rho;3a1 RightAngleBracket;27e9",
       "RightArrow;2192 RightArrowBar;21e5 RightArrowLeftArrow;21c4",
       "RightCeiling;2309 RightDoubleBracket;27e7 RightDownTeeVector;295d",
       "RightDownVector;21c2 RightDownVectorBar;2955 RightFloor;230b",
       "RightTee;22a2 RightTeeArrow;21a6 RightTeeVector;295b RightTriangle;22b3",
       "RightTriangleBar;29d0 RightTriangleEqual;22b5 RightUpDownVector;294f",
       "RightUpTeeVector;295c RightUpVector;21be RightUpVectorBar;2954",
       "RightVector;21c0 RightVectorBar;2953 Rightarrow;21d2 Ropf;211d",
       "RoundImplies;2970 Rrightarrow;21db Rscr;211b Rsh;21b1 RuleDelayed;29f4",
       "SHCHcy;429 SHcy;428 SOFTcy;42c Sacute;15a Sc;2abc Scaron;160 Scedil;15e",
       "Scirc;15c Scy;421 Sfr;d835,dd16 ShortDownArrow;2193 ShortLeftArrow;2190",
       "ShortRightArrow;2192 ShortUpArrow;2191 Sigma;3a3 SmallCircle;2218",
       "Sopf;d835,dd4a Sqrt;221a Square;25a1 SquareIntersection;2293",
       "SquareSubset;228f SquareSubsetEqual;2291 SquareSuperset;2290",
       "SquareSupersetEqual;2292 SquareUnion;2294 Sscr;d835,dcae Star;22c6",
       "Sub;22d0 Subset;22d0 SubsetEqual;2286 Succeeds;227b SucceedsEqual;2ab0",
       "SucceedsSlantEqual;227d SucceedsTilde;227f SuchThat;220b Sum;2211",
       "Sup;22d1 Superset;2283 SupersetEqual;2287 Supset;22d1",
       "THORN:de TRADE;2122 TSHcy;40b TScy;426 Tab;9 Tau;3a4 Tcaron;164",
       "Tcedil;162 Tcy;422 Tfr;d835,dd17 Therefore;2234 Theta;398",
       "ThickSpace;205f,200a ThinSpace;2009 Tilde;223c TildeEqual;2243",
       "TildeFullEqual;2245 TildeTilde;2248 Topf;d835,dd4b TripleDot;20db",
       "Tscr;d835,dcaf Tstrok;166",
       "Uacute:da Uarr;219f Uarrocir;2949 Ubrcy;40e Ubreve;16c Ucirc:db Ucy;423",
       "Udblac;170 Ufr;d835,dd18 Ugrave:d9 Umacr;16a UnderBar;5f UnderBrace;23df",
       "UnderBracket;23b5 UnderParenthesis;23dd Union;22c3 UnionPlus;228e",
       "Uogon;172 Uopf;d835,dd4c UpArrow;2191 UpArrowBar;2912",
       "UpArrowDownArrow;21c5 UpDownArrow;2195 UpEquilibrium;296e UpTee;22a5",
       "UpTeeArrow;21a5 Uparrow;21d1 Updownarrow;21d5 UpperLeftArrow;2196",
       "UpperRightArrow;2197 Upsi;3d2 Upsilon;3a5 Uring;16e Uscr;d835,dcb0",
       "Utilde;168 Uuml:dc",
       "VDash;22ab Vbar;2aeb Vcy;412 Vdash;22a9 Vdashl;2ae6 Vee;22c1 Verbar;2016",
       "Vert;2016 VerticalBar;2223 VerticalLine;7c VerticalSeparator;2758",
       "VerticalTilde;2240 VeryThinSpace;200a Vfr;d835,dd19 Vopf;d835,dd4d",
       "Vscr;d835,dcb1 Vvdash;22aa",
       "Wcirc;174 Wedge;22c0 Wfr;d835,dd1a Wopf;d835,dd4e Wscr;d835,dcb2",
       "Xfr;d835,dd1b Xi;39e Xopf;d835,dd4f Xscr;d835,dcb3",
       "YAcy;42f YIcy;407 YUcy;42e Yacute:dd Ycirc;176 Ycy;42b Yfr;d835,dd1c",
       "Yopf;d835,dd50 Yscr;d835,dcb4 Yuml;178",
       "ZHcy;416 Zacute;179 Zcaron;17d Zcy;417 Zdot;17b ZeroWidthSpace;200b",
       "Zeta;396 Zfr;2128 Zopf;2124 Zscr;d835,dcb5",
       "aacute:e1 abreve;103 ac;223e acE;223e,333 acd;223f acirc:e2 acute:b4",
       "acy;430 aelig:e6 af;2061 afr;d835,dd1e agrave:e0 alefsym;2135 aleph;2135",
       "alpha;3b1 amacr;101 amalg;2a3f amp:26 and;2227 andand;2a55 andd;2a5c",
       "andslope;2a58 andv;2a5a ang;2220 ange;29a4 angle;2220 angmsd;2221",
       "angmsdaa;29a8 angmsdab;29a9 angmsdac;29aa angmsdad;29ab angmsdae;29ac",
       "angmsdaf;29ad angmsdag;29ae angmsdah;29af angrt;221f angrtvb;22be",
       "angrtvbd;299d angsph;2222 angst;c5 angzarr;237c aogon;105 aopf;d835,dd52",
       "ap;2248 apE;2a70 apacir;2a6f ape;224a apid;224b apos;27 approx;2248",
       "approxeq;224a aring:e5 ascr;d835,dcb6 ast;2a asymp;2248 asympeq;224d",
       "atilde:e3 auml:e4 awconint;2233 awint;2a11",
       "bNot;2aed backcong;224c backepsilon;3f6 backprime;2035 backsim;223d",
       "backsimeq;22cd barvee;22bd barwed;2305 barwedge;2305 bbrk;23b5",
       "bbrktbrk;23b6 bcong;224c bcy;431 bdquo;201e becaus;2235 because;2235",
       "bemptyv;29b0 bepsi;3f6 bernou;212c beta;3b2 beth;2136 between;226c",
       "bfr;d835,dd1f bigcap;22c2 bigcirc;25ef bigcup;22c3 bigodot;2a00",
       "bigoplus;2a01 bigotimes;2a02 bigsqcup;2a06 bigstar;2605",
       "bigtriangledown;25bd bigtriangleup;25b3 biguplus;2a04 bigvee;22c1",
       "bigwedge;22c0 bkarow;290d blacklozenge;29eb blacksquare;25aa",
       "blacktriangle;25b4 blacktriangledown;25be blacktriangleleft;25c2",
       "blacktriangleright;25b8 blank;2423 blk12;2592 blk14;2591 blk34;2593",
       "block;2588 bne;3d,20e5 bnequiv;2261,20e5 bnot;2310 bopf;d835,dd53",
       "bot;22a5 bottom;22a5 bowtie;22c8 boxDL;2557 boxDR;2554 boxDl;2556",
       "boxDr;2553 boxH;2550 boxHD;2566 boxHU;2569 boxHd;2564 boxHu;2567",
       "boxUL;255d boxUR;255a boxUl;255c boxUr;2559 boxV;2551 boxVH;256c",
       "boxVL;2563 boxVR;2560 boxVh;256b boxVl;2562 boxVr;255f boxbox;29c9",
       "boxdL;2555 boxdR;2552 boxdl;2510 boxdr;250c boxh;2500 boxhD;2565",
       "boxhU;2568 boxhd;252c boxhu;2534 boxminus;229f boxplus;229e",
       "boxtimes;22a0 boxuL;255b boxuR;2558 boxul;2518 boxur;2514 boxv;2502",
       "boxvH;256a boxvL;2561 boxvR;255e boxvh;253c boxvl;2524 boxvr;251c",
       "bprime;2035 breve;2d8 brvbar:a6 bscr;d835,dcb7 bsemi;204f bsim;223d",
       "bsime;22cd bsol;5c bsolb;29c5 bsolhsub;27c8 bull;2022 bullet;2022",
       "bump;224e bumpE;2aae bumpe;224f bumpeq;224f",
       "cacute;107 cap;2229 capand;2a44 capbrcup;2a49 capcap;2a4b capcup;2a47",
       "capdot;2a40 caps;2229,fe00 caret;2041 caron;2c7 ccaps;2a4d ccaron;10d",
       "ccedil:e7 ccirc;109 ccups;2a4c ccupssm;2a50 cdot;10b cedil:b8",
       "cemptyv;29b2 cent:a2 centerdot;b7 cfr;d835,dd20 chcy;447 check;2713",
       "checkmark;2713 chi;3c7 cir;25cb cirE;29c3 circ;2c6 circeq;2257",
       "circlearrowleft;21ba circlearrowright;21bb circledR;ae circledS;24c8",
       "circledast;229b circledcirc;229a circleddash;229d cire;2257",
       "cirfnint;2a10 cirmid;2aef cirscir;29c2 clubs;2663 clubsuit;2663 colon;3a",
       "colone;2254 coloneq;2254 comma;2c commat;40 comp;2201 compfn;2218",
       "complement;2201 complexes;2102 cong;2245 congdot;2a6d conint;222e",
       "copf;d835,dd54 coprod;2210 copy:a9 copysr;2117 crarr;21b5 cross;2717",
       "cscr;d835,dcb8 csub;2acf csube;2ad1 csup;2ad0 csupe;2ad2 ctdot;22ef",
       "cudarrl;2938 cudarrr;2935 cuepr;22de cuesc;22df cularr;21b6 cularrp;293d",
       "cup;222a cupbrcap;2a48 cupcap;2a46 cupcup;2a4a cupdot;228d cupor;2a45",
       "cups;222a,fe00 curarr;21b7 curarrm;293c curlyeqprec;22de",
       "curlyeqsucc;22df curlyvee;22ce curlywedge;22cf curren:a4",
       "curvearrowleft;21b6 curvearrowright;21b7 cuvee;22ce cuwed;22cf",
       "cwconint;2232 cwint;2231 cylcty;232d",
       "dArr;21d3 dHar;2965 dagger;2020 daleth;2138 darr;2193 dash;2010",
       "dashv;22a3 dbkarow;290f dblac;2dd dcaron;10f dcy;434 dd;2146",
       "ddagger;2021 ddarr;21ca ddotseq;2a77 deg:b0 delta;3b4 demptyv;29b1",
       "dfisht;297f dfr;d835,dd21 dharl;21c3 dharr;21c2 diam;22c4 diamond;22c4",
       "diamondsuit;2666 diams;2666 die;a8 digamma;3dd disin;22f2 div;f7",
       "divide:f7 divideontimes;22c7 divonx;22c7 djcy;452 dlcorn;231e",
       "dlcrop;230d dollar;24 dopf;d835,dd55 dot;2d9 doteq;2250 doteqdot;2251",
       "dotminus;2238 dotplus;2214 dotsquare;22a1 doublebarwedge;2306",
       "downarrow;2193 downdownarrows;21ca downharpoonleft;21c3",
       "downharpoonright;21c2 drbkarow;2910 drcorn;231f drcrop;230c",
       "dscr;d835,dcb9 dscy;455 dsol;29f6 dstrok;111 dtdot;22f1 dtri;25bf",
       "dtrif;25be duarr;21f5 duhar;296f dwangle;29a6 dzcy;45f dzigrarr;27ff",
       "eDDot;2a77 eDot;2251 eacute:e9 easter;2a6e ecaron;11b ecir;2256 ecirc:ea",
       "ecolon;2255 ecy;44d edot;117 ee;2147 efDot;2252 efr;d835,dd22 eg;2a9a",
       "egrave:e8 egs;2a96 egsdot;2a98 el;2a99 elinters;23e7 ell;2113 els;2a95",
       "elsdot;2a97 emacr;113 empty;2205 emptyset;2205 emptyv;2205 emsp;2003",
       "emsp13;2004 emsp14;2005 eng;14b ensp;2002 eogon;119 eopf;d835,dd56",
       "epar;22d5 eparsl;29e3 eplus;2a71 epsi;3b5 epsilon;3b5 epsiv;3f5",
       "eqcirc;2256 eqcolon;2255 eqsim;2242 eqslantgtr;2a96 eqslantless;2a95",
       "equals;3d equest;225f equiv;2261 equivDD;2a78 eqvparsl;29e5 erDot;2253",
       "erarr;2971 escr;212f esdot;2250 esim;2242 eta;3b7 eth:f0 euml:eb",
       "euro;20ac excl;21 exist;2203 expectation;2130 exponentiale;2147",
       "fallingdotseq;2252 fcy;444 female;2640 ffilig;fb03 fflig;fb00",
       "ffllig;fb04 ffr;d835,dd23 filig;fb01 fjlig;66,6a flat;266d fllig;fb02",
       "fltns;25b1 fnof;192 fopf;d835,dd57 forall;2200 fork;22d4 forkv;2ad9",
       "fpartint;2a0d frac12:bd frac13;2153 frac14:bc frac15;2155 frac16;2159",
       "frac18;215b frac23;2154 frac25;2156 frac34:be frac35;2157 frac38;215c",
       "frac45;2158 frac56;215a frac58;215d frac78;215e frasl;2044 frown;2322",
       "fscr;d835,dcbb",
       "gE;2267 gEl;2a8c gacute;1f5 gamma;3b3 gammad;3dd gap;2a86 gbreve;11f",
       "gcirc;11d gcy;433 gdot;121 ge;2265 gel;22db geq;2265 geqq;2267",
       "geqslant;2a7e ges;2a7e gescc;2aa9 gesdot;2a80 gesdoto;2a82 gesdotol;2a84",
       "gesl;22db,fe00 gesles;2a94 gfr;d835,dd24 gg;226b ggg;22d9 gimel;2137",
       "gjcy;453 gl;2277 glE;2a92 gla;2aa5 glj;2aa4 gnE;2269 gnap;2a8a",
       "gnapprox;2a8a gne;2a88 gneq;2a88 gneqq;2269 gnsim;22e7 gopf;d835,dd58",
       "grave;60 gscr;210a gsim;2273 gsime;2a8e gsiml;2a90 gt:3e gtcc;2aa7",
       "gtcir;2a7a gtdot;22d7 gtlPar;2995 gtquest;2a7c gtrapprox;2a86",
       "gtrarr;2978 gtrdot;22d7 gtreqless;22db gtreqqless;2a8c gtrless;2277",
       "gtrsim;2273 gvertneqq;2269,fe00 gvnE;2269,fe00",
       "hArr;21d4 hairsp;200a half;bd hamilt;210b hardcy;44a harr;2194",
       "harrcir;2948 harrw;21ad hbar;210f hcirc;125 hearts;2665 heartsuit;2665",
       "hellip;2026 hercon;22b9 hfr;d835,dd25 hksearow;2925 hkswarow;2926",
       "hoarr;21ff homtht;223b hookleftarrow;21a9 hookrightarrow;21aa",
       "hopf;d835,dd59 horbar;2015 hscr;d835,dcbd hslash;210f hstrok;127",
       "hybull;2043 hyphen;2010",
       "iacute:ed ic;2063 icirc:ee icy;438 iecy;435 iexcl:a1 iff;21d4",
       "ifr;d835,dd26 igrave:ec ii;2148 iiiint;2a0c iiint;222d iinfin;29dc",
       "iiota;2129 ijlig;133 imacr;12b image;2111 imagline;2110 imagpart;2111",
       "imath;131 imof;22b7 imped;1b5 in;2208 incare;2105 infin;221e",
       "infintie;29dd inodot;131 int;222b intcal;22ba integers;2124",
       "intercal;22ba intlarhk;2a17 intprod;2a3c iocy;451 iogon;12f",
       "iopf;d835,dd5a iota;3b9 iprod;2a3c iquest:bf iscr;d835,dcbe isin;2208",
       "isinE;22f9 isindot;22f5 isins;22f4 isinsv;22f3 isinv;2208 it;2062",
       "itilde;129 iukcy;456 iuml:ef",
       "jcirc;135 jcy;439 jfr;d835,dd27 jmath;237 jopf;d835,dd5b jscr;d835,dcbf",
       "jsercy;458 jukcy;454",
       "kappa;3ba kappav;3f0 kcedil;137 kcy;43a kfr;d835,dd28 kgreen;138",
       "khcy;445 kjcy;45c kopf;d835,dd5c kscr;d835,dcc0",
       "lAarr;21da lArr;21d0 lAtail;291b lBarr;290e lE;2266 lEg;2a8b lHar;2962",
       "lacute;13a laemptyv;29b4 lagran;2112 lambda;3bb lang;27e8 langd;2991",
       "langle;27e8 lap;2a85 laquo:ab larr;2190 larrb;21e4 larrbfs;291f",
       "larrfs;291d larrhk;21a9 larrlp;21ab larrpl;2939 larrsim;2973 larrtl;21a2",
       "lat;2aab latail;2919 late;2aad lates;2aad,fe00 lbarr;290c lbbrk;2772",
       "lbrace;7b lbrack;5b lbrke;298b lbrksld;298f lbrkslu;298d lcaron;13e",
       "lcedil;13c lceil;2308 lcub;7b lcy;43b ldca;2936 ldquo;201c ldquor;201e",
       "ldrdhar;2967 ldrushar;294b ldsh;21b2 le;2264 leftarrow;2190",
       "leftarrowtail;21a2 leftharpoondown;21bd leftharpoonup;21bc",
       "leftleftarrows;21c7 leftrightarrow;2194 leftrightarrows;21c6",
       "leftrightharpoons;21cb leftrightsquigarrow;21ad leftthreetimes;22cb",
       "leg;22da leq;2264 leqq;2266 leqslant;2a7d les;2a7d lescc;2aa8",
       "lesdot;2a7f lesdoto;2a81 lesdotor;2a83 lesg;22da,fe00 lesges;2a93",
       "lessapprox;2a85 lessdot;22d6 lesseqgtr;22da lesseqqgtr;2a8b lessgtr;2276",
       "lesssim;2272 lfisht;297c lfloor;230a lfr;d835,dd29 lg;2276 lgE;2a91",
       "lhard;21bd lharu;21bc lharul;296a lhblk;2584 ljcy;459 ll;226a llarr;21c7",
       "llcorner;231e llhard;296b lltri;25fa lmidot;140 lmoust;23b0",
       "lmoustache;23b0 lnE;2268 lnap;2a89 lnapprox;2a89 lne;2a87 lneq;2a87",
       "lneqq;2268 lnsim;22e6 loang;27ec loarr;21fd lobrk;27e6",
       "longleftarrow;27f5 longleftrightarrow;27f7 longmapsto;27fc",
       "longrightarrow;27f6 looparrowleft;21ab looparrowright;21ac lopar;2985",
       "lopf;d835,dd5d loplus;2a2d lotimes;2a34 lowast;2217 lowbar;5f loz;25ca",
       "lozenge;25ca lozf;29eb lpar;28 lparlt;2993 lrarr;21c6 lrcorner;231f",
       "lrhar;21cb lrhard;296d lrm;200e lrtri;22bf lsaquo;2039 lscr;d835,dcc1",
       "lsh;21b0 lsim;2272 lsime;2a8d lsimg;2a8f lsqb;5b lsquo;2018 lsquor;201a",
       "lstrok;142 lt:3c ltcc;2aa6 ltcir;2a79 ltdot;22d6 lthree;22cb ltimes;22c9",
       "ltlarr;2976 ltquest;2a7b ltrPar;2996 ltri;25c3 ltrie;22b4 ltrif;25c2",
       "lurdshar;294a luruhar;2966 lvertneqq;2268,fe00 lvnE;2268,fe00",
       "mDDot;223a macr:af male;2642 malt;2720 maltese;2720 map;21a6 mapsto;21a6",
       "mapstodown;21a7 mapstoleft;21a4 mapstoup;21a5 marker;25ae mcomma;2a29",
       "mcy;43c mdash;2014 measuredangle;2221 mfr;d835,dd2a mho;2127 micro:b5",
       "mid;2223 midast;2a midcir;2af0 middot:b7 minus;2212 minusb;229f",
       "minusd;2238 minusdu;2a2a mlcp;2adb mldr;2026 mnplus;2213 models;22a7",
       "mopf;d835,dd5e mp;2213 mscr;d835,dcc2 mstpos;223e mu;3bc multimap;22b8",
       "mumap;22b8",
       "nGg;22d9,338 nGt;226b,20d2 nGtv;226b,338 nLeftarrow;21cd",
       "nLeftrightarrow;21ce nLl;22d8,338 nLt;226a,20d2 nLtv;226a,338",
       "nRightarrow;21cf nVDash;22af nVdash;22ae nabla;2207 nacute;144",
       "nang;2220,20d2 nap;2249 napE;2a70,338 napid;224b,338 napos;149",
       "napprox;2249 natur;266e natural;266e naturals;2115 nbsp:a0",
       "nbump;224e,338 nbumpe;224f,338 ncap;2a43 ncaron;148 ncedil;146",
       "ncong;2247 ncongdot;2a6d,338 ncup;2a42 ncy;43d ndash;2013 ne;2260",
       "neArr;21d7 nearhk;2924 nearr;2197 nearrow;2197 nedot;2250,338",
       "nequiv;2262 nesear;2928 nesim;2242,338 nexist;2204 nexists;2204",
       "nfr;d835,dd2b ngE;2267,338 nge;2271 ngeq;2271 ngeqq;2267,338",
       "ngeqslant;2a7e,338 nges;2a7e,338 ngsim;2275 ngt;226f ngtr;226f",
       "nhArr;21ce nharr;21ae nhpar;2af2 ni;220b nis;22fc nisd;22fa niv;220b",
       "njcy;45a nlArr;21cd nlE;2266,338 nlarr;219a nldr;2025 nle;2270",
       "nleftarrow;219a nleftrightarrow;21ae nleq;2270 nleqq;2266,338",
       "nleqslant;2a7d,338 nles;2a7d,338 nless;226e nlsim;2274 nlt;226e",
       "nltri;22ea nltrie;22ec nmid;2224 nopf;d835,dd5f not:ac notin;2209",
       "notinE;22f9,338 notindot;22f5,338 notinva;2209 notinvb;22f7 notinvc;22f6",
       "notni;220c notniva;220c notnivb;22fe notnivc;22fd npar;2226",
       "nparallel;2226 nparsl;2afd,20e5 npart;2202,338 npolint;2a14 npr;2280",
       "nprcue;22e0 npre;2aaf,338 nprec;2280 npreceq;2aaf,338 nrArr;21cf",
       "nrarr;219b nrarrc;2933,338 nrarrw;219d,338 nrightarrow;219b nrtri;22eb",
       "nrtrie;22ed nsc;2281 nsccue;22e1 nsce;2ab0,338 nscr;d835,dcc3",
       "nshortmid;2224 nshortparallel;2226 nsim;2241 nsime;2244 nsimeq;2244",
       "nsmid;2224 nspar;2226 nsqsube;22e2 nsqsupe;22e3 nsub;2284 nsubE;2ac5,338",
       "nsube;2288 nsubset;2282,20d2 nsubseteq;2288 nsubseteqq;2ac5,338",
       "nsucc;2281 nsucceq;2ab0,338 nsup;2285 nsupE;2ac6,338 nsupe;2289",
       "nsupset;2283,20d2 nsupseteq;2289 nsupseteqq;2ac6,338 ntgl;2279 ntilde:f1",
       "ntlg;2278 ntriangleleft;22ea ntrianglelefteq;22ec ntriangleright;22eb",
       "ntrianglerighteq;22ed nu;3bd num;23 numero;2116 numsp;2007 nvDash;22ad",
       "nvHarr;2904 nvap;224d,20d2 nvdash;22ac nvge;2265,20d2 nvgt;3e,20d2",
       "nvinfin;29de nvlArr;2902 nvle;2264,20d2 nvlt;3c,20d2 nvltrie;22b4,20d2",
       "nvrArr;2903 nvrtrie;22b5,20d2 nvsim;223c,20d2 nwArr;21d6 nwarhk;2923",
       "nwarr;2196 nwarrow;2196 nwnear;2927",
       "oS;24c8 oacute:f3 oast;229b ocir;229a ocirc:f4 ocy;43e odash;229d",
       "odblac;151 odiv;2a38 odot;2299 odsold;29bc oelig;153 ofcir;29bf",
       "ofr;d835,dd2c ogon;2db ograve:f2 ogt;29c1 ohbar;29b5 ohm;3a9 oint;222e",
       "olarr;21ba olcir;29be olcross;29bb oline;203e olt;29c0 omacr;14d",
       "omega;3c9 omicron;3bf omid;29b6 ominus;2296 oopf;d835,dd60 opar;29b7",
       "operp;29b9 oplus;2295 or;2228 orarr;21bb ord;2a5d order;2134",
       "orderof;2134 ordf:aa ordm:ba origof;22b6 oror;2a56 orslope;2a57 orv;2a5b",
       "oscr;2134 oslash:f8 osol;2298 otilde:f5 otimes;2297 otimesas;2a36",
       "ouml:f6 ovbar;233d",
       "par;2225 para:b6 parallel;2225 parsim;2af3 parsl;2afd part;2202 pcy;43f",
       "percnt;25 period;2e permil;2030 perp;22a5 pertenk;2031 pfr;d835,dd2d",
       "phi;3c6 phiv;3d5 phmmat;2133 phone;260e pi;3c0 pitchfork;22d4 piv;3d6",
       "planck;210f planckh;210e plankv;210f plus;2b plusacir;2a23 plusb;229e",
       "pluscir;2a22 plusdo;2214 plusdu;2a25 pluse;2a72 plusmn:b1 plussim;2a26",
       "plustwo;2a27 pm;b1 pointint;2a15 popf;d835,dd61 pound:a3 pr;227a",
       "prE;2ab3 prap;2ab7 prcue;227c pre;2aaf prec;227a precapprox;2ab7",
       "preccurlyeq;227c preceq;2aaf precnapprox;2ab9 precneqq;2ab5",
       "precnsim;22e8 precsim;227e prime;2032 primes;2119 prnE;2ab5 prnap;2ab9",
       "prnsim;22e8 prod;220f profalar;232e profline;2312 profsurf;2313",
       "prop;221d propto;221d prsim;227e prurel;22b0 pscr;d835,dcc5 psi;3c8",
       "puncsp;2008",
       "qfr;d835,dd2e qint;2a0c qopf;d835,dd62 qprime;2057 qscr;d835,dcc6",
       "quaternions;210d quatint;2a16 quest;3f questeq;225f quot:22",
       "rAarr;21db rArr;21d2 rAtail;291c rBarr;290f rHar;2964 race;223d,331",
       "racute;155 radic;221a raemptyv;29b3 rang;27e9 rangd;2992 range;29a5",
       "rangle;27e9 raquo:bb rarr;2192 rarrap;2975 rarrb;21e5 rarrbfs;2920",
       "rarrc;2933 rarrfs;291e rarrhk;21aa rarrlp;21ac rarrpl;2945 rarrsim;2974",
       "rarrtl;21a3 rarrw;219d ratail;291a ratio;2236 rationals;211a rbarr;290d",
       "rbbrk;2773 rbrace;7d rbrack;5d rbrke;298c rbrksld;298e rbrkslu;2990",
       "rcaron;159 rcedil;157 rceil;2309 rcub;7d rcy;440 rdca;2937 rdldhar;2969",
       "rdquo;201d rdquor;201d rdsh;21b3 real;211c realine;211b realpart;211c",
       "reals;211d rect;25ad reg:ae rfisht;297d rfloor;230b rfr;d835,dd2f",
       "rhard;21c1 rharu;21c0 rharul;296c rho;3c1 rhov;3f1 rightarrow;2192",
       "rightarrowtail;21a3 rightharpoondown;21c1 rightharpoonup;21c0",
       "rightleftarrows;21c4 rightleftharpoons;21cc rightrightarrows;21c9",
       "rightsquigarrow;219d rightthreetimes;22cc ring;2da risingdotseq;2253",
       "rlarr;21c4 rlhar;21cc rlm;200f rmoust;23b1 rmoustache;23b1 rnmid;2aee",
       "roang;27ed roarr;21fe robrk;27e7 ropar;2986 ropf;d835,dd63 roplus;2a2e",
       "rotimes;2a35 rpar;29 rpargt;2994 rppolint;2a12 rrarr;21c9 rsaquo;203a",
       "rscr;d835,dcc7 rsh;21b1 rsqb;5d rsquo;2019 rsquor;2019 rthree;22cc",
       "rtimes;22ca rtri;25b9 rtrie;22b5 rtrif;25b8 rtriltri;29ce ruluhar;2968",
       "rx;211e",
       "sacute;15b sbquo;201a sc;227b scE;2ab4 scap;2ab8 scaron;161 sccue;227d",
       "sce;2ab0 scedil;15f scirc;15d scnE;2ab6 scnap;2aba scnsim;22e9",
       "scpolint;2a13 scsim;227f scy;441 sdot;22c5 sdotb;22a1 sdote;2a66",
       "seArr;21d8 searhk;2925 searr;2198 searrow;2198 sect:a7 semi;3b",
       "seswar;2929 setminus;2216 setmn;2216 sext;2736 sfr;d835,dd30 sfrown;2322",
       "sharp;266f shchcy;449 shcy;448 shortmid;2223 shortparallel;2225 shy:ad",
       "sigma;3c3 sigmaf;3c2 sigmav;3c2 sim;223c simdot;2a6a sime;2243",
       "simeq;2243 simg;2a9e simgE;2aa0 siml;2a9d simlE;2a9f simne;2246",
       "simplus;2a24 simrarr;2972 slarr;2190 smallsetminus;2216 smashp;2a33",
       "smeparsl;29e4 smid;2223 smile;2323 smt;2aaa smte;2aac smtes;2aac,fe00",
       "softcy;44c sol;2f solb;29c4 solbar;233f sopf;d835,dd64 spades;2660",
       "spadesuit;2660 spar;2225 sqcap;2293 sqcaps;2293,fe00 sqcup;2294",
       "sqcups;2294,fe00 sqsub;228f sqsube;2291 sqsubset;228f sqsubseteq;2291",
       "sqsup;2290 sqsupe;2292 sqsupset;2290 sqsupseteq;2292 squ;25a1",
       "square;25a1 squarf;25aa squf;25aa srarr;2192 sscr;d835,dcc8 ssetmn;2216",
       "ssmile;2323 sstarf;22c6 star;2606 starf;2605 straightepsilon;3f5",
       "straightphi;3d5 strns;af sub;2282 subE;2ac5 subdot;2abd sube;2286",
       "subedot;2ac3 submult;2ac1 subnE;2acb subne;228a subplus;2abf",
       "subrarr;2979 subset;2282 subseteq;2286 subseteqq;2ac5 subsetneq;228a",
       "subsetneqq;2acb subsim;2ac7 subsub;2ad5 subsup;2ad3 succ;227b",
       "succapprox;2ab8 succcurlyeq;227d succeq;2ab0 succnapprox;2aba",
       "succneqq;2ab6 succnsim;22e9 succsim;227f sum;2211 sung;266a sup;2283",
       "sup1:b9 sup2:b2 sup3:b3 supE;2ac6 supdot;2abe supdsub;2ad8 supe;2287",
       "supedot;2ac4 suphsol;27c9 suphsub;2ad7 suplarr;297b supmult;2ac2",
       "supnE;2acc supne;228b supplus;2ac0 supset;2283 supseteq;2287",
       "supseteqq;2ac6 supsetneq;228b supsetneqq;2acc supsim;2ac8 supsub;2ad4",
       "supsup;2ad6 swArr;21d9 swarhk;2926 swarr;2199 swarrow;2199 swnwar;292a",
       "szlig:df",
       "target;2316 tau;3c4 tbrk;23b4 tcaron;165 tcedil;163 tcy;442 tdot;20db",
       "telrec;2315 tfr;d835,dd31 there4;2234 therefore;2234 theta;3b8",
       "thetasym;3d1 thetav;3d1 thickapprox;2248 thicksim;223c thinsp;2009",
       "thkap;2248 thksim;223c thorn:fe tilde;2dc times:d7 timesb;22a0",
       "timesbar;2a31 timesd;2a30 tint;222d toea;2928 top;22a4 topbot;2336",
       "topcir;2af1 topf;d835,dd65 topfork;2ada tosa;2929 tprime;2034 trade;2122",
       "triangle;25b5 triangledown;25bf triangleleft;25c3 trianglelefteq;22b4",
       "triangleq;225c triangleright;25b9 trianglerighteq;22b5 tridot;25ec",
       "trie;225c triminus;2a3a triplus;2a39 trisb;29cd tritime;2a3b",
       "trpezium;23e2 tscr;d835,dcc9 tscy;446 tshcy;45b tstrok;167 twixt;226c",
       "twoheadleftarrow;219e twoheadrightarrow;21a0",
       "uArr;21d1 uHar;2963 uacute:fa uarr;2191 ubrcy;45e ubreve;16d ucirc:fb",
       "ucy;443 udarr;21c5 udblac;171 udhar;296e ufisht;297e ufr;d835,dd32",
       "ugrave:f9 uharl;21bf uharr;21be uhblk;2580 ulcorn;231c ulcorner;231c",
       "ulcrop;230f ultri;25f8 umacr;16b uml:a8 uogon;173 uopf;d835,dd66",
       "uparrow;2191 updownarrow;2195 upharpoonleft;21bf upharpoonright;21be",
       "uplus;228e upsi;3c5 upsih;3d2 upsilon;3c5 upuparrows;21c8 urcorn;231d",
       "urcorner;231d urcrop;230e uring;16f urtri;25f9 uscr;d835,dcca utdot;22f0",
       "utilde;169 utri;25b5 utrif;25b4 uuarr;21c8 uuml:fc uwangle;29a7",
       "vArr;21d5 vBar;2ae8 vBarv;2ae9 vDash;22a8 vangrt;299c varepsilon;3f5",
       "varkappa;3f0 varnothing;2205 varphi;3d5 varpi;3d6 varpropto;221d",
       "varr;2195 varrho;3f1 varsigma;3c2 varsubsetneq;228a,fe00",
       "varsubsetneqq;2acb,fe00 varsupsetneq;228b,fe00 varsupsetneqq;2acc,fe00",
       "vartheta;3d1 vartriangleleft;22b2 vartriangleright;22b3 vcy;432",
       "vdash;22a2 vee;2228 veebar;22bb veeeq;225a vellip;22ee verbar;7c vert;7c",
       "vfr;d835,dd33 vltri;22b2 vnsub;2282,20d2 vnsup;2283,20d2 vopf;d835,dd67",
       "vprop;221d vrtri;22b3 vscr;d835,dccb vsubnE;2acb,fe00 vsubne;228a,fe00",
       "vsupnE;2acc,fe00 vsupne;228b,fe00 vzigzag;299a",
       "wcirc;175 wedbar;2a5f wedge;2227 wedgeq;2259 weierp;2118 wfr;d835,dd34",
       "wopf;d835,dd68 wp;2118 wr;2240 wreath;2240 wscr;d835,dccc",
       "xcap;22c2 xcirc;25ef xcup;22c3 xdtri;25bd xfr;d835,dd35 xhArr;27fa",
       "xharr;27f7 xi;3be xlArr;27f8 xlarr;27f5 xmap;27fc xnis;22fb xodot;2a00",
       "xopf;d835,dd69 xoplus;2a01 xotime;2a02 xrArr;27f9 xrarr;27f6",
       "xscr;d835,dccd xsqcup;2a06 xuplus;2a04 xutri;25b3 xvee;22c1 xwedge;22c0",
       "yacute:fd yacy;44f ycirc;177 ycy;44b yen:a5 yfr;d835,dd36 yicy;457",
       "yopf;d835,dd6a yscr;d835,dcce yucy;44e yuml:ff",
       "zacute;17a zcaron;17e zcy;437 zdot;17c zeetrf;2128 zeta;3b6",
       "zfr;d835,dd37 zhcy;436 zigrarr;21dd zopf;d835,dd6b zscr;d835,dccf",
       "zwj;200d zwnj;200c" >>

\* The replacement character U+FFFD.
Replacement == 65533

\* What a numeric character reference to 0x80 .. 0x9F stands for.
Windows1252 ==
    <<8364, 129, 8218, 402, 8222, 8230, 8224, 8225, 710, 8240, 352, 8249,
      338, 141, 381, 143, 144, 8216, 8217, 8220, 8221, 8226, 8211, 8212,
      732, 8482, 353, 8250, 339, 157, 382, 376>>

\* The code units a numeric character reference to n stands for.
numericUnits(n) ==
    IF n = 0 \/ n > MaxCodePoint \/ n \in 55296..57343 THEN <<Replacement>>
    ELSE IF n \in 128..159 THEN <<Windows1252[n - 127]>>
    ELSE utf16(n)

\* No character reference.
NoRef == [len |-> 0, chars |-> Empty]

\* The numeric character reference that rest, the text after an ampersand,
\* starts with: '#', an x for base 16, one digit or more, and a semicolon
\* if there is one.  len counts the ampersand.
numericReference(rest) ==
    LET hex16  == Len(rest) >= 2 /\ rest[2] \in {"x", "X"}
        first  == IF hex16 THEN 3 ELSE 2
        isDigit(c) == IF hex16 THEN indexIn("0123456789abcdefABCDEF", c) # 0
                      ELSE indexIn("0123456789", c) # 0
        ends   == {j \in first..Len(rest) :
                     \A k \in first..j : isDigit(rest[k])}
        last   == CHOOSE j \in ends : \A k \in ends : k <= j
        semi   == last < Len(rest) /\ rest[last + 1] = ";"
        n      == numberOf(SubSeq(rest, first, last),
                           IF hex16 THEN 16 ELSE 10, 0)
    IN  IF ends = {} THEN NoRef
        ELSE [len   |-> 1 + last + (IF semi THEN 1 ELSE 0),
              chars |-> charsOf(numericUnits(n))]

\* The words of a line: what its spaces separate.
wordsOf(line) ==
    LET cuts == {0, Len(line) + 1}
                   \cup {i \in 1..Len(line) : SubSeq(line, i, i) = " "}
        next(a) == CHOOSE b \in cuts : b > a /\ \A c \in cuts : c > a => b <= c
    IN  {SubSeq(line, a + 1, next(a) - 1) : a \in cuts \ {Len(line) + 1}}

\* Where the name of a word of NamedCharRefs ends: the index of its ';' or
\* ':'.
nameEnd(word) ==
    CHOOSE p \in 1..Len(word) : SubSeq(word, p, p) \in {";", ":"}

\* The name of a word of NamedCharRefs, without its semicolon.
nameOf(word) == chars(SubSeq(word, 1, nameEnd(word) - 1))

\* The code units of a word of NamedCharRefs, one or two.
unitsOf(word) ==
    LET value  == SubSeq(word, nameEnd(word) + 1, Len(word))
        commas == {i \in 1..Len(value) : SubSeq(value, i, i) = ","}
        comma  == CHOOSE i \in commas : TRUE
    IN  IF commas = {} THEN <<hex(value)>>
        ELSE <<hex(SubSeq(value, 1, comma - 1)),
               hex(SubSeq(value, comma + 1, Len(value)))>>

\* Whether the text rest starts with the string name.
startsWith(rest, name) ==
    Len(name) <= Len(rest) /\ SubSeq(rest, 1, Len(name)) = name

\* The reference that a word of NamedCharRefs makes of rest, a text that
\* starts with the name (of length len) of the word: the name with its
\* semicolon if one follows, or else the name alone if that is recognised.
referenceTo(rest, word, len) ==
    IF len < Len(rest) /\ rest[len + 1] = ";"
    THEN [len |-> len + 2, chars |-> charsOf(unitsOf(word))]
    ELSE IF SubSeq(word, nameEnd(word), nameEnd(word)) = ":"
    THEN [len |-> len + 1, chars |-> charsOf(unitsOf(word))]
    ELSE NoRef

\* The reference among refs with the longest name.
longest(refs) ==
    CHOOSE ref \in refs \cup {NoRef} :
       \A other \in refs : other.len <= ref.len

\* Whether a word of the line starts with the two characters of start.
hasWord(line, start) ==
    \E i \in 1..(Len(line) - 1) :
       /\ SubSeq(line, i, i + 1) = start
       /\ (i = 1 \/ SubSeq(line, i - 1, i - 1) = " ")

\* The named character reference that rest starts with: the longest name
\* of NamedCharRefs that rest begins with.  No name is shorter than two
\* characters.
namedReference(rest) ==
    LET lines == {k \in 1..Len(NamedCharRefs) :
                    /\ Len(rest) >= 2 /\ Len(rest[1]) = 1 /\ Len(rest[2]) = 1
                    /\ SubSeq(NamedCharRefs[k], 1, 1) = rest[1]
                    /\ hasWord(NamedCharRefs[k], rest[1] \o rest[2])}
    IN  longest({referenceTo(rest, word, Len(nameOf(word))) :
                   word \in {w \in UNION {wordsOf(NamedCharRefs[k]) :
                                            k \in lines} :
                               startsWith(rest, nameOf(w))}})

\* The character reference that starts at the ampersand text[i].
reference(text, i) ==
    LET rest == SubSeq(text, i + 1, Len(text))
    IN  IF rest # Empty /\ rest[1] = "#" THEN numericReference(rest)
        ELSE namedReference(rest)

\* Newlines normalised: CR LF and a lone CR become LF.
normalizeNewlines(text) ==
    pick([i \in 1..Len(text) |-> IF text[i] = "\r" THEN "\n" ELSE text[i]],
         {i \in 1..Len(text) :
            ~(text[i] = "\r" /\ i < Len(text) /\ text[i + 1] = "\n")}, 1)

\* U+0000, which the parser drops from the text of a textarea.
Null == "#0"

\* The text that input decodes to, given refs: for each ampersand of
\* input, its index and the character reference that starts there (NoRef
\* if none does).  A U+0000 outside a reference is dropped.
decoded(input, refs) ==
    join([i \in 1..Len(input) |->
            IF \E r \in refs : r[1] < i /\ i <= r[1] + r[2].len - 1 THEN Empty
            ELSE IF \E r \in refs : r[1] = i /\ r[2].len > 0
            THEN (CHOOSE r \in refs : r[1] = i)[2].chars
            ELSE IF input[i] = Null THEN Empty
            ELSE <<input[i]>>], 1)

\* The text that a text with normalised newlines is parsed to.
decodeInput(input) ==
    decoded(input, {<<i, reference(input, i)>> :
                      i \in {i \in 1..Len(input) : input[i] = "&"}})

\* Lines 101-103: textarea.innerHTML = text; text = textarea.value.  The
\* newlines of the text are normalised, the text is parsed as RCDATA
\* (character references are decoded, tags are not), and the value read
\* back has its newlines normalised again.  A reference starts at an
\* ampersand and holds no other, so no two references overlap and each
\* position of the text is decided on its own: it starts a reference, it
\* lies inside one, or it is an ordinary character (kept, unless it is
\* U+0000).
decodeHTML(text) ==
    IF \A i \in 1..Len(text) : text[i] \notin {"&", "\r", Null} THEN text
    ELSE normalizeNewlines(decodeInput(normalizeNewlines(text)))

\* String.prototype.trim (line 121).
trim(s) ==
    LET ink == {i \in 1..Len(s) : s[i] \notin WhiteSpace}
    IN  IF ink = {} THEN Empty
        ELSE SubSeq(s, CHOOSE i \in ink : \A j \in ink : i <= j,
                       CHOOSE i \in ink : \A j \in ink : i >= j)

\* Line 122 left out: apostrophes stay (and are unsafe characters).
keepApostrophes(s) == s

\* .replace(/'/gi, '') (line 122): apostrophes are deleted.
removeApostrophes(s) == SelectSeq(s, LAMBDA c : c # "'")

\* .replace(nonsafeChars, '-') (line 123).
replaceNonsafe(s) ==
    [i \in 1..Len(s) |-> IF s[i] \in nonsafeChars THEN "-" ELSE s[i]]

\* .replace(/-{2,}/g, '-') (line 124): a run of hyphens becomes one hyphen.
collapseHyphens(s) ==
    pick(s, {i \in 1..Len(s) : ~(s[i] = "-" /\ i > 1 /\ s[i - 1] = "-")}, 1)

\* .replace(/^-+|-+$/gm, '') (line 126): a run of hyphens is deleted when
\* it starts a line or ends one.
trimHyphens(s) ==
    LET runStart(i) == CHOOSE a \in 1..i :
                          /\ \A k \in a..i : s[k] = "-"
                          /\ (a = 1 \/ s[a - 1] # "-")
        runEnd(i)   == CHOOSE b \in i..Len(s) :
                          /\ \A k \in i..b : s[k] = "-"
                          /\ (b = Len(s) \/ s[b + 1] # "-")
        atLineStart(a) == a = 1 \/ s[a - 1] \in LineTerminators
        atLineEnd(b)   == b = Len(s) \/ s[b + 1] \in LineTerminators
    IN  pick(s, {i \in 1..Len(s) :
                    ~(s[i] = "-" /\ (atLineStart(runStart(i))
                                       \/ atLineEnd(runEnd(i))))}, 1)

\* The simple lower-case mappings of Unicode 16.0, one record of 20 characters
\* each, in base 16: from the code point first to last in steps of step,
\* the lower case of first + n is target + n ("first last step target ").
LowerRanges ==
    << "00041 0005a 1 00061 000c0 000d6 1 000e0 000d8 000de 1 000f8 ",
       "00100 0012e 2 00101 00132 00136 2 00133 00139 00147 2 0013a ",
       "0014a 00176 2 0014b 00178 00178 1 000ff 00179 0017d 2 0017a ",
       "00181 00181 1 00253 00182 00184 2 00183 00186 00186 1 00254 ",
       "00187 00187 1 00188 00189 0018a 1 00256 0018b 0018b 1 0018c ",
       "0018e 0018e 1 001dd 0018f 0018f 1 00259 00190 00190 1 0025b ",
       "00191 00191 1 00192 00193 00193 1 00260 00194 00194 1 00263 ",
       "00196 00196 1 00269 00197 00197 1 00268 00198 00198 1 00199 ",
       "0019c 0019c 1 0026f 0019d 0019d 1 00272 0019f 0019f 1 00275 ",
       "001a0 001a4 2 001a1 001a6 001a6 1 00280 001a7 001a7 1 001a8 ",
       "001a9 001a9 1 00283 001ac 001ac 1 001ad 001ae 001ae 1 00288 ",
       "001af 001af 1 001b0 001b1 001b2 1 0028a 001b3 001b5 2 001b4 ",
       "001b7 001b7 1 00292 001b8 001b8 1 001b9 001bc 001bc 1 001bd ",
       "001c4 001c4 1 001c6 001c5 001c5 1 001c6 001c7 001c7 1 001c9 ",
       "001c8 001c8 1 001c9 001ca 001ca 1 001cc 001cb 001db 2 001cc ",
       "001de 001ee 2 001df 001f1 001f1 1 001f3 001f2 001f4 2 001f3 ",
       "001f6 001f6 1 00195 001f7 001f7 1 001bf 001f8 0021e 2 001f9 ",
       "00220 00220 1 0019e 00222 00232 2 00223 0023a 0023a 1 02c65 ",
       "0023b 0023b 1 0023c 0023d 0023d 1 0019a 0023e 0023e 1 02c66 ",
       "00241 00241 1 00242 00243 00243 1 00180 00244 00244 1 00289 ",
       "00245 00245 1 0028c 00246 0024e 2 00247 00370 00372 2 00371 ",
       "00376 00376 1 00377 0037f 0037f 1 003f3 00386 00386 1 003ac ",
       "00388 0038a 1 003ad 0038c 0038c 1 003cc 0038e 0038f 1 003cd ",
       "00391 003a1 1 003b1 003a3 003ab 1 003c3 003cf 003cf 1 003d7 ",
       "003d8 003ee 2 003d9 003f4 003f4 1 003b8 003f7 003f7 1 003f8 ",
       "003f9 003f9 1 003f2 003fa 003fa 1 003fb 003fd 003ff 1 0037b ",
       "00400 0040f 1 00450 00410 0042f 1 00430 00460 00480 2 00461 ",
       "0048a 004be 2 0048b 004c0 004c0 1 004cf 004c1 004cd 2 004c2 ",
       "004d0 0052e 2 004d1 00531 00556 1 00561 010a0 010c5 1 02d00 ",
       "010c7 010c7 1 02d27 010cd 010cd 1 02d2d 013a0 013ef 1 0ab70 ",
       "013f0 013f5 1 013f8 01c89 01c89 1 01c8a 01c90 01cba 1 010d0 ",
       "01cbd 01cbf 1 010fd 01e00 01e94 2 01e01 01e9e 01e9e 1 000df ",
       "01ea0 01efe 2 01ea1 01f08 01f0f 1 01f00 01f18 01f1d 1 01f10 ",
       "01f28 01f2f 1 01f20 01f38 01f3f 1 01f30 01f48 01f4d 1 01f40 ",
       "01f59 01f5f 2 01f51 01f68 01f6f 1 01f60 01f88 01f8f 1 01f80 ",
       "01f98 01f9f 1 01f90 01fa8 01faf 1 01fa0 01fb8 01fb9 1 01fb0 ",
       "01fba 01fbb 1 01f70 01fbc 01fbc 1 01fb3 01fc8 01fcb 1 01f72 ",
       "01fcc 01fcc 1 01fc3 01fd8 01fd9 1 01fd0 01fda 01fdb 1 01f76 ",
       "01fe8 01fe9 1 01fe0 01fea 01feb 1 01f7a 01fec 01fec 1 01fe5 ",
       "01ff8 01ff9 1 01f78 01ffa 01ffb 1 01f7c 01ffc 01ffc 1 01ff3 ",
       "02126 02126 1 003c9 0212a 0212a 1 0006b 0212b 0212b 1 000e5 ",
       "02132 02132 1 0214e 02160 0216f 1 02170 02183 02183 1 02184 ",
       "024b6 024cf 1 024d0 02c00 02c2f 1 02c30 02c60 02c60 1 02c61 ",
       "02c62 02c62 1 0026b 02c63 02c63 1 01d7d 02c64 02c64 1 0027d ",
       "02c67 02c6b 2 02c68 02c6d 02c6d 1 00251 02c6e 02c6e 1 00271 ",
       "02c6f 02c6f 1 00250 02c70 02c70 1 00252 02c72 02c72 1 02c73 ",
       "02c75 02c75 1 02c76 02c7e 02c7f 1 0023f 02c80 02ce2 2 02c81 ",
       "02ceb 02ced 2 02cec 02cf2 02cf2 1 02cf3 0a640 0a66c 2 0a641 ",
       "0a680 0a69a 2 0a681 0a722 0a72e 2 0a723 0a732 0a76e 2 0a733 ",
       "0a779 0a77b 2 0a77a 0a77d 0a77d 1 01d79 0a77e 0a786 2 0a77f ",
       "0a78b 0a78b 1 0a78c 0a78d 0a78d 1 00265 0a790 0a792 2 0a791 ",
       "0a796 0a7a8 2 0a797 0a7aa 0a7aa 1 00266 0a7ab 0a7ab 1 0025c ",
       "0a7ac 0a7ac 1 00261 0a7ad 0a7ad 1 0026c 0a7ae 0a7ae 1 0026a ",
       "0a7b0 0a7b0 1 0029e 0a7b1 0a7b1 1 00287 0a7b2 0a7b2 1 0029d ",
       "0a7b3 0a7b3 1 0ab53 0a7b4 0a7c2 2 0a7b5 0a7c4 0a7c4 1 0a794 ",
       "0a7c5 0a7c5 1 00282 0a7c6 0a7c6 1 01d8e 0a7c7 0a7c9 2 0a7c8 ",
       "0a7cb 0a7cb 1 00264 0a7cc 0a7cc 1 0a7cd 0a7d0 0a7d0 1 0a7d1 ",
       "0a7d6 0a7da 2 0a7d7 0a7dc 0a7dc 1 0019b 0a7f5 0a7f5 1 0a7f6 ",
       "0ff21 0ff3a 1 0ff41 10400 10427 1 10428 104b0 104d3 1 104d8 ",
       "10570 1057a 1 10597 1057c 1058a 1 105a3 1058c 10592 1 105b3 ",
       "10594 10595 1 105bb 10c80 10cb2 1 10cc0 10d50 10d65 1 10d70 ",
       "118a0 118bf 1 118c0 16e40 16e5f 1 16e60 1e900 1e921 1 1e922 " >>

\* The ranges of the cased code points (that are not case-ignorable), one
\* record of 12 characters each, in base 16 ("first last ").
CasedRanges ==
    << "00041 0005a 00061 0007a 000aa 000aa 000b5 000b5 000ba 000ba 000c0 000d6 ",
       "000d8 000f6 000f8 001ba 001bc 001bf 001c4 00293 00295 002af 00370 00373 ",
       "00376 00377 0037b 0037d 0037f 0037f 00386 00386 00388 0038a 0038c 0038c ",
       "0038e 003a1 003a3 003f5 003f7 00481 0048a 0052f 00531 00556 00560 00588 ",
       "010a0 010c5 010c7 010c7 010cd 010cd 010d0 010fa 010fd 010ff 013a0 013f5 ",
       "013f8 013fd 01c80 01c8a 01c90 01cba 01cbd 01cbf 01d00 01d2b 01d6b 01d77 ",
       "01d79 01d9a 01e00 01f15 01f18 01f1d 01f20 01f45 01f48 01f4d 01f50 01f57 ",
       "01f59 01f59 01f5b 01f5b 01f5d 01f5d 01f5f 01f7d 01f80 01fb4 01fb6 01fbc ",
       "01fbe 01fbe 01fc2 01fc4 01fc6 01fcc 01fd0 01fd3 01fd6 01fdb 01fe0 01fec ",
       "01ff2 01ff4 01ff6 01ffc 02102 02102 02107 02107 0210a 02113 02115 02115 ",
       "02119 0211d 02124 02124 02126 02126 02128 02128 0212a 0212d 0212f 02134 ",
       "02139 02139 0213c 0213f 02145 02149 0214e 0214e 02160 0217f 02183 02184 ",
       "024b6 024e9 02c00 02c7b 02c7e 02ce4 02ceb 02cee 02cf2 02cf3 02d00 02d25 ",
       "02d27 02d27 02d2d 02d2d 0a640 0a66d 0a680 0a69b 0a722 0a76f 0a771 0a787 ",
       "0a78b 0a78e 0a790 0a7cd 0a7d0 0a7d1 0a7d3 0a7d3 0a7d5 0a7dc 0a7f5 0a7f6 ",
       "0a7fa 0a7fa 0ab30 0ab5a 0ab60 0ab68 0ab70 0abbf 0fb00 0fb06 0fb13 0fb17 ",
       "0ff21 0ff3a 0ff41 0ff5a 10400 1044f 104b0 104d3 104d8 104fb 10570 1057a ",
       "1057c 1058a 1058c 10592 10594 10595 10597 105a1 105a3 105b1 105b3 105b9 ",
       "105bb 105bc 10c80 10cb2 10cc0 10cf2 10d50 10d65 10d70 10d85 118a0 118df ",
       "16e40 16e7f 1d400 1d454 1d456 1d49c 1d49e 1d49f 1d4a2 1d4a2 1d4a5 1d4a6 ",
       "1d4a9 1d4ac 1d4ae 1d4b9 1d4bb 1d4bb 1d4bd 1d4c3 1d4c5 1d505 1d507 1d50a ",
       "1d50d 1d514 1d516 1d51c 1d51e 1d539 1d53b 1d53e 1d540 1d544 1d546 1d546 ",
       "1d54a 1d550 1d552 1d6a5 1d6a8 1d6c0 1d6c2 1d6da 1d6dc 1d6fa 1d6fc 1d714 ",
       "1d716 1d734 1d736 1d74e 1d750 1d76e 1d770 1d788 1d78a 1d7a8 1d7aa 1d7c2 ",
       "1d7c4 1d7cb 1df00 1df09 1df0b 1df1e 1df25 1df2a 1e900 1e943 1f130 1f149 ",
       "1f150 1f169 1f170 1f189 " >>

\* The ranges of the case-ignorable code points (Unicode 16.0).
CaseIgnorableRanges ==
    << "00027 00027 0002e 0002e 0003a 0003a 0005e 0005e 00060 00060 000a8 000a8 ",
       "000ad 000ad 000af 000af 000b4 000b4 000b7 000b8 002b0 0036f 00374 00375 ",
       "0037a 0037a 00384 00385 00387 00387 00483 00489 00559 00559 0055f 0055f ",
       "00591 005bd 005bf 005bf 005c1 005c2 005c4 005c5 005c7 005c7 005f4 005f4 ",
       "00600 00605 00610 0061a 0061c 0061c 00640 00640 0064b 0065f 00670 00670 ",
       "006d6 006dd 006df 006e8 006ea 006ed 0070f 0070f 00711 00711 00730 0074a ",
       "007a6 007b0 007eb 007f5 007fa 007fa 007fd 007fd 00816 0082d 00859 0085b ",
       "00888 00888 00890 00891 00897 0089f 008c9 00902 0093a 0093a 0093c 0093c ",
       "00941 00948 0094d 0094d 00951 00957 00962 00963 00971 00971 00981 00981 ",
       "009bc 009bc 009c1 009c4 009cd 009cd 009e2 009e3 009fe 009fe 00a01 00a02 ",
       "00a3c 00a3c 00a41 00a42 00a47 00a48 00a4b 00a4d 00a51 00a51 00a70 00a71 ",
       "00a75 00a75 00a81 00a82 00abc 00abc 00ac1 00ac5 00ac7 00ac8 00acd 00acd ",
       "00ae2 00ae3 00afa 00aff 00b01 00b01 00b3c 00b3c 00b3f 00b3f 00b41 00b44 ",
       "00b4d 00b4d 00b55 00b56 00b62 00b63 00b82 00b82 00bc0 00bc0 00bcd 00bcd ",
       "00c00 00c00 00c04 00c04 00c3c 00c3c 00c3e 00c40 00c46 00c48 00c4a 00c4d ",
       "00c55 00c56 00c62 00c63 00c81 00c81 00cbc 00cbc 00cbf 00cbf 00cc6 00cc6 ",
       "00ccc 00ccd 00ce2 00ce3 00d00 00d01 00d3b 00d3c 00d41 00d44 00d4d 00d4d ",
       "00d62 00d63 00d81 00d81 00dca 00dca 00dd2 00dd4 00dd6 00dd6 00e31 00e31 ",
       "00e34 00e3a 00e46 00e4e 00eb1 00eb1 00eb4 00ebc 00ec6 00ec6 00ec8 00ece ",
       "00f18 00f19 00f35 00f35 00f37 00f37 00f39 00f39 00f71 00f7e 00f80 00f84 ",
       "00f86 00f87 00f8d 00f97 00f99 00fbc 00fc6 00fc6 0102d 01030 01032 01037 ",
       "01039 0103a 0103d 0103e 01058 01059 0105e 01060 01071 01074 01082 01082 ",
       "01085 01086 0108d 0108d 0109d 0109d 010fc 010fc 0135d 0135f 01712 01714 ",
       "01732 01733 01752 01753 01772 01773 017b4 017b5 017b7 017bd 017c6 017c6 ",
       "017c9 017d3 017d7 017d7 017dd 017dd 0180b 0180f 01843 01843 01885 01886 ",
       "018a9 018a9 01920 01922 01927 01928 01932 01932 01939 0193b 01a17 01a18 ",
       "01a1b 01a1b 01a56 01a56 01a58 01a5e 01a60 01a60 01a62 01a62 01a65 01a6c ",
       "01a73 01a7c 01a7f 01a7f 01aa7 01aa7 01ab0 01ace 01b00 01b03 01b34 01b34 ",
       "01b36 01b3a 01b3c 01b3c 01b42 01b42 01b6b 01b73 01b80 01b81 01ba2 01ba5 ",
       "01ba8 01ba9 01bab 01bad 01be6 01be6 01be8 01be9 01bed 01bed 01bef 01bf1 ",
       "01c2c 01c33 01c36 01c37 01c78 01c7d 01cd0 01cd2 01cd4 01ce0 01ce2 01ce8 ",
       "01ced 01ced 01cf4 01cf4 01cf8 01cf9 01d2c 01d6a 01d78 01d78 01d9b 01dff ",
       "01fbd 01fbd 01fbf 01fc1 01fcd 01fcf 01fdd 01fdf 01fed 01fef 01ffd 01ffe ",
       "0200b 0200f 02018 02019 02024 02024 02027 02027 0202a 0202e 02060 02064 ",
       "02066 0206f 02071 02071 0207f 0207f 02090 0209c 020d0 020f0 02c7c 02c7d ",
       "02cef 02cf1 02d6f 02d6f 02d7f 02d7f 02de0 02dff 02e2f 02e2f 03005 03005 ",
       "0302a 0302d 03031 03035 0303b 0303b 03099 0309e 030fc 030fe 0a015 0a015 ",
       "0a4f8 0a4fd 0a60c 0a60c 0a66f 0a672 0a674 0a67d 0a67f 0a67f 0a69c 0a69f ",
       "0a6f0 0a6f1 0a700 0a721 0a770 0a770 0a788 0a78a 0a7f2 0a7f4 0a7f8 0a7f9 ",
       "0a802 0a802 0a806 0a806 0a80b 0a80b 0a825 0a826 0a82c 0a82c 0a8c4 0a8c5 ",
       "0a8e0 0a8f1 0a8ff 0a8ff 0a926 0a92d 0a947 0a951 0a980 0a982 0a9b3 0a9b3 ",
       "0a9b6 0a9b9 0a9bc 0a9bd 0a9cf 0a9cf 0a9e5 0a9e6 0aa29 0aa2e 0aa31 0aa32 ",
       "0aa35 0aa36 0aa43 0aa43 0aa4c 0aa4c 0aa70 0aa70 0aa7c 0aa7c 0aab0 0aab0 ",
       "0aab2 0aab4 0aab7 0aab8 0aabe 0aabf 0aac1 0aac1 0aadd 0aadd 0aaec 0aaed ",
       "0aaf3 0aaf4 0aaf6 0aaf6 0ab5b 0ab5f 0ab69 0ab6b 0abe5 0abe5 0abe8 0abe8 ",
       "0abed 0abed 0fb1e 0fb1e 0fbb2 0fbc2 0fe00 0fe0f 0fe13 0fe13 0fe20 0fe2f ",
       "0fe52 0fe52 0fe55 0fe55 0feff 0feff 0ff07 0ff07 0ff0e 0ff0e 0ff1a 0ff1a ",
       "0ff3e 0ff3e 0ff40 0ff40 0ff70 0ff70 0ff9e 0ff9f 0ffe3 0ffe3 0fff9 0fffb ",
       "101fd 101fd 102e0 102e0 10376 1037a 10780 10785 10787 107b0 107b2 107ba ",
       "10a01 10a03 10a05 10a06 10a0c 10a0f 10a38 10a3a 10a3f 10a3f 10ae5 10ae6 ",
       "10d24 10d27 10d4e 10d4e 10d69 10d6d 10d6f 10d6f 10eab 10eac 10efc 10eff ",
       "10f46 10f50 10f82 10f85 11001 11001 11038 11046 11070 11070 11073 11074 ",
       "1107f 11081 110b3 110b6 110b9 110ba 110bd 110bd 110c2 110c2 110cd 110cd ",
       "11100 11102 11127 1112b 1112d 11134 11173 11173 11180 11181 111b6 111be ",
       "111c9 111cc 111cf 111cf 1122f 11231 11234 11234 11236 11237 1123e 1123e ",
       "11241 11241 112df 112df 112e3 112ea 11300 11301 1133b 1133c 11340 11340 ",
       "11366 1136c 11370 11374 113bb 113c0 113ce 113ce 113d0 113d0 113d2 113d2 ",
       "113e1 113e2 11438 1143f 11442 11444 11446 11446 1145e 1145e 114b3 114b8 ",
       "114ba 114ba 114bf 114c0 114c2 114c3 115b2 115b5 115bc 115bd 115bf 115c0 ",
       "115dc 115dd 11633 1163a 1163d 1163d 1163f 11640 116ab 116ab 116ad 116ad ",
       "116b0 116b5 116b7 116b7 1171d 1171d 1171f 1171f 11722 11725 11727 1172b ",
       "1182f 11837 11839 1183a 1193b 1193c 1193e 1193e 11943 11943 119d4 119d7 ",
       "119da 119db 119e0 119e0 11a01 11a0a 11a33 11a38 11a3b 11a3e 11a47 11a47 ",
       "11a51 11a56 11a59 11a5b 11a8a 11a96 11a98 11a99 11c30 11c36 11c38 11c3d ",
       "11c3f 11c3f 11c92 11ca7 11caa 11cb0 11cb2 11cb3 11cb5 11cb6 11d31 11d36 ",
       "11d3a 11d3a 11d3c 11d3d 11d3f 11d45 11d47 11d47 11d90 11d91 11d95 11d95 ",
       "11d97 11d97 11ef3 11ef4 11f00 11f01 11f36 11f3a 11f40 11f40 11f42 11f42 ",
       "11f5a 11f5a 13430 13440 13447 13455 1611e 16129 1612d 1612f 16af0 16af4 ",
       "16b30 16b36 16b40 16b43 16d40 16d42 16d6b 16d6c 16f4f 16f4f 16f8f 16f9f ",
       "16fe0 16fe1 16fe3 16fe4 1aff0 1aff3 1aff5 1affb 1affd 1affe 1bc9d 1bc9e ",
       "1bca0 1bca3 1cf00 1cf2d 1cf30 1cf46 1d167 1d169 1d173 1d182 1d185 1d18b ",
       "1d1aa 1d1ad 1d242 1d244 1da00 1da36 1da3b 1da6c 1da75 1da75 1da84 1da84 ",
       "1da9b 1da9f 1daa1 1daaf 1e000 1e006 1e008 1e018 1e01b 1e021 1e023 1e024 ",
       "1e026 1e02a 1e030 1e06d 1e08f 1e08f 1e130 1e13d 1e2ae 1e2ae 1e2ec 1e2ef ",
       "1e4eb 1e4ef 1e5ee 1e5ef 1e8d0 1e8d6 1e944 1e94b 1f3fb 1f3ff e0001 e0001 ",
       "e0020 e007f e0100 e01ef " >>

\* The records of width characters in the lines of a table, each as the
\* line and the index before the record.
recordsOf(table, width) ==
    UNION {{<<table[k], width * n>> : n \in 0..((Len(table[k]) \div width) - 1)}
             : k \in 1..Len(table)}

\* The number in base 16 at the columns from to to of a record.
field(r, from, to) == hex(SubSeq(r[1], r[2] + from, r[2] + to))

\* Whether the code point is in a range of the table (CasedRanges,
\* CaseIgnorableRanges).
inRanges(point, table) ==
    \E r \in recordsOf(table, 12) :
        field(r, 1, 5) <= point /\ point <= field(r, 7, 11)

\* The lower case of a code point, given the records of LowerRanges that
\* hold it.
lowerAmong(point, ranges) ==
    IF ranges = {} THEN point
    ELSE LET r == CHOOSE r \in ranges : TRUE
         IN  point - field(r, 1, 5) + field(r, 15, 19)

\* The lower case of a code point that has a lower case of one code point.
lowerOf(point) ==
    lowerAmong(point,
               {r \in recordsOf(LowerRanges, 20) :
                  /\ field(r, 1, 5) <= point /\ point <= field(r, 7, 11)
                  /\ (point - field(r, 1, 5)) % field(r, 13, 13) = 0})

\* The code point that each code unit is, or is a half of: two code units
\* from 0xD800 and from 0xDC00 on are the halves of one above U+FFFF.
pointsOf(units) ==
    LET pairAt(i) == /\ 1 <= i /\ i < Len(units)
                     /\ units[i] \in 55296..56319
                     /\ units[i + 1] \in 56320..57343
        pairOf(i) == 65536 + (units[i] - 55296) * 1024 + (units[i + 1] - 56320)
    IN  [i \in 1..Len(units) |->
            IF pairAt(i) THEN [point |-> pairOf(i), second |-> FALSE]
            ELSE IF pairAt(i - 1)
            THEN [point |-> pairOf(i - 1), second |-> TRUE]
            ELSE [point |-> units[i], second |-> FALSE]]

\* Whether the capital sigma at i is final, given the kind of each
\* character around it: the nearest character before it that is not
\* case-ignorable is cased, and the nearest one after it is not.
finalSigma(kind, i) ==
    LET before == {j \in 1..(i - 1) : kind[j] # "ignorable"}
        after  == {j \in (i + 1)..Len(kind) : kind[j] # "ignorable"}
    IN  /\ before # {}
        /\ kind[CHOOSE j \in before : \A k \in before : k <= j] = "cased"
        /\ \/ after = {}
           \/ kind[CHOOSE j \in after : \A k \in after : j <= k] # "cased"

\* The kind of each of the code points.
kindsOf(points) ==
    [j \in 1..Len(points) |->
        IF inRanges(points[j].point, CaseIgnorableRanges) THEN "ignorable"
        ELSE IF inRanges(points[j].point, CasedRanges) THEN "cased"
        ELSE "other"]

\* toLowerCase on the code points of a string: U+0130 has a lower case of
\* two characters, and the lower case of the capital sigma U+03A3 depends
\* on where it stands.
lowerPoints(points) ==
    join([i \in 1..Len(points) |->
            IF points[i].second THEN Empty
            ELSE IF points[i].point = 304 THEN charsOf(<<105, 775>>)
            ELSE IF points[i].point = 931
            THEN charsOf(<<IF finalSigma(kindsOf(points), i)
                           THEN 962 ELSE 963>>)
            ELSE charsOf(utf16(lowerOf(points[i].point)))], 1)

\* String.prototype.toLowerCase (line 127).  A string of ASCII characters
\* needs no table.
toLowerCase(s) ==
    LET upper == <<"A", "B", "C", "D", "E", "F", "G", "H", "I", "J", "K", "L",
                   "M", "N", "O", "P", "Q", "R", "S", "T", "U", "V", "W", "X",
                   "Y", "Z">>
        lower == <<"a", "b", "c", "d", "e", "f", "g", "h", "i", "j", "k", "l",
                   "m", "n", "o", "p", "q", "r", "s", "t", "u", "v", "w", "x",
                   "y", "z">>
    IN  IF \A i \in 1..Len(s) : Len(s[i]) = 1
        THEN [i \in 1..Len(s) |->
                IF \E k \in 1..Len(upper) : upper[k] = s[i]
                THEN lower[CHOOSE k \in 1..Len(upper) : upper[k] = s[i]]
                ELSE s[i]]
        ELSE lowerPoints(pointsOf([i \in 1..Len(s) |-> codeOf(s[i])]))

---------------------------------------------------------------------------
(* Options (index.ts lines 3-52).  An options object is a record with all  *)
(* eight fields: a field the caller left out holds the falsy value of its  *)
(* type ("" or Empty, the number 0), which is how  x || default  reads it. *)
(* class and base are strings of characters (they are concatenated into    *)
(* the anchor's className and href); the other texts are atoms.            *)

\* The built-in icon glyph, '\uE9CB'.
DefaultIcon == "E9CB"

\* Partial<AnchorOpts> with no field set: {}.
NoOpts ==
    [icon |-> "", visible |-> "", placement |-> "", ariaLabel |-> "",
     class |-> Empty, base |-> Empty, truncate |-> Number(0, FALSE),
     titleText |-> ""]

\* The default value of the constructor's parameter (lines 27-30).
ConstructorDefault == [NoOpts EXCEPT !.icon = DefaultIcon, !.visible = "always"]

\* _applyRemainingDefaultOptions (lines 39-52).
applyRemainingDefaultOptions(opts) ==
    [icon      |-> IF opts.icon # "" THEN opts.icon ELSE DefaultIcon,
     visible   |-> IF opts.visible # "" THEN opts.visible ELSE "hover",
     placement |-> IF opts.placement # "" THEN opts.placement ELSE "right",
     ariaLabel |-> IF opts.ariaLabel # "" THEN opts.ariaLabel ELSE "Anchor",
     class     |-> opts.class,
     base      |-> opts.base,
     truncate  |-> IF truthy(opts.truncate) THEN mathFloor(opts.truncate)
                   ELSE Number(DefaultTruncate, FALSE),
     titleText |-> opts.titleText]

\* The options object after urlify ran (lines 114-116): urlify applies the
\* defaults again when opts.truncate is falsy.
urlifyOpts(opts) ==
    IF ~truthy(opts.truncate) THEN applyRemainingDefaultOptions(opts)
    ELSE opts

\* urlify with lines 125 and 126 exchanged: hyphens are trimmed before the
\* text is truncated.
urlifyTrimFirst(text, opts) ==
    toLowerCase(
      substring(
        trimHyphens(
          collapseHyphens(
            replaceNonsafe(
              removeApostrophes(
                trim(decodeHTML(text)))))),
        toInteger(urlifyOpts(opts).truncate)))

\* urlify (lines 99-128): the value it returns for text under opts.
urlify(text, opts) ==
    toLowerCase(
      trimHyphens(
        substring(
          collapseHyphens(
            replaceNonsafe(
              removeApostrophes(
                trim(decodeHTML(text))))),
          toInteger(urlifyOpts(opts).truncate))))

---------------------------------------------------------------------------
(* The document.  Its elements are numbered 1..Len(doc.els) in document    *)
(* order (a parent before its descendants).  What the program never        *)
(* changes is in doc: each element's tag, parent, data-anchor-id and       *)
(* initial id and text; whether the document has a <base> element, the     *)
(* location's pathname + search, and whether the device supports touch.    *)
(* What it changes is in the variables: the child nodes and the id         *)
(* attribute of each element, the style elements in the head, and each     *)
(* Anchor object.                                                          *)

VARIABLES
    doc,        \* the fixed part of the document and its environment
    children,   \* children[e]: the child nodes of element e, in order
    idAttr,     \* idAttr[e]: the id attribute of element e
    styles,     \* the number of style.anchorjs elements in document.head
    live,       \* live[m]: Anchor object m has been constructed
    opts,       \* opts[m]: this.opts of Anchor object m
    els,        \* els[m]: this.els of Anchor object m
    last        \* the last call made: which, on what, and how it ended

vars == <<doc, children, idAttr, styles, live, opts, els, last>>

\* An attribute: absent, or present with a value.
NoAttr == [has |-> FALSE, val |-> Empty]
Attr(v) == [has |-> TRUE, val |-> v]

\* The Anchor objects there can be.
Managers == {1, 2}

Elems == 1..Len(doc.els)

\* Child nodes.  A text node holds text; an element node names an element
\* of the document; an anchor node is an <a> element that add created, with
\* the attributes and inline styles add gave it.
TextNode(t) ==
    [kind |-> "text", el |-> 0, text |-> t, className |-> Empty,
     href |-> Empty, ariaLabel |-> "", icon |-> "", title |-> "",
     opacity |-> "", font |-> "", lineHeight |-> "", position |-> "",
     marginLeft |-> "", by |-> 0]

ElNode(e) == [TextNode(Empty) EXCEPT !.kind = "el", !.el = e]

\* 'anchorjs-link ', the marker class and the space that follows it.
MarkerPrefix ==
    <<"a", "n", "c", "h", "o", "r", "j", "s", "-", "l", "i", "n", "k", " ">>

\* ' anchorjs-link ', what hasAnchorJSLink searches for.
MarkerToken == <<" ">> \o MarkerPrefix

\* The string 'undefined': what  ' ' + x + ' '  concatenates when x is the
\* className of a text node.
Undefined == <<"u", "n", "d", "e", "f", "i", "n", "e", "d">>

\* node.className as line 78 reads it.
classNameOf(node) == IF node.kind = "text" THEN Undefined ELSE node.className

\* Whether the class attribute of a node holds the class anchorjs-link.
hasMarkerClass(node) ==
    /\ node.kind # "text"
    /\ indexOf(<<" ">> \o node.className \o <<" ">>, MarkerToken) > -1

\* hasAnchorJSLink (lines 77-86) on an element with the child nodes kids.
\* With no child nodes el.firstChild is null and line 78 throws a
\* TypeError: hasAnchorJSLinkThrows.
hasAnchorJSLinkThrows(kids) == kids = <<>>

hasAnchorJSLink(kids) ==
    LET firstClass == classNameOf(kids[1])
        lastClass  == classNameOf(kids[Len(kids)])
        hasLeftAnchor ==
            indexOf(<<" ">> \o firstClass \o <<" ">>, MarkerToken) > -1
        hasRightAnchor ==
            indexOf(<<" ">> \o lastClass \o <<" ">>, MarkerToken) > -1
    IN  hasLeftAnchor \/ hasRightAnchor

\* el.textContent: the text of the descendants of e, in document order.
RECURSIVE textContent(_, _)
textContent(ch, e) ==
    LET RECURSIVE cat(_)
        cat(i) ==
            IF i > Len(ch[e]) THEN Empty
            ELSE (CASE ch[e][i].kind = "text" -> ch[e][i].text
                    [] ch[e][i].kind = "el"   -> textContent(ch, ch[e][i].el)
                    [] OTHER                  -> Empty) \o cat(i + 1)
    IN  cat(1)

\* A reference to a child node: the element that holds it and its index
\* among that element's children.  NullRef is null.
NullRef == <<0, 0>>

\* el.querySelector('.anchorjs-link'): the first descendant of e, in
\* document order, with the marker class.
RECURSIVE querySelectorAnchor(_, _)
querySelectorAnchor(ch, e) ==
    LET RECURSIVE scan(_)
        scan(i) ==
            IF i > Len(ch[e]) THEN NullRef
            ELSE IF ch[e][i].kind = "a" /\ hasMarkerClass(ch[e][i])
            THEN <<e, i>>
            ELSE IF ch[e][i].kind = "el"
                    /\ querySelectorAnchor(ch, ch[e][i].el) # NullRef
            THEN querySelectorAnchor(ch, ch[e][i].el)
            ELSE scan(i + 1)
    IN  scan(1)

\* document.querySelectorAll('[id]') mapped to el.id (lines 169-172): the
\* ids of the document, in document order.
idListOf(ids) ==
    LET RECURSIVE from(_)
        from(e) ==
            IF e > Len(ids) THEN <<>>
            ELSE (IF ids[e].has THEN <<ids[e].val>> ELSE <<>>) \o from(e + 1)
    IN  from(1)

---------------------------------------------------------------------------
(* Selectors and _getElements (lines 382-395) *)

\* The argument of add and remove: undefined (no argument), a selector
\* string (a group of tag names, 'h2, h3'), an array or NodeList of
\* elements, or a value of another type.
SelUndefined  == [type |-> "undefined", tags |-> {}, nodes |-> <<>>]
SelString(ts) == [type |-> "string", tags |-> ts, nodes |-> <<>>]
SelArray(ns)  == [type |-> "array", tags |-> {}, nodes |-> ns]
SelOther      == [type |-> "other", tags |-> {}, nodes |-> <<>>]

\* A falsy argument that is not a string: null, 0, false.
SelNull == [type |-> "null", tags |-> {}, nodes |-> <<>>]

\* !selector (line 156): no argument, or a falsy one.
notGiven(selector) == selector.type \in {"undefined", "null"}

\* 'h2, h3, h4, h5, h6' (line 157).
DefaultSelector == SelString({"h2", "h3", "h4", "h5", "h6"})

\* document.querySelectorAll of a group of tag names: the elements with one
\* of the tags, in document order.
querySelectorAll(d, tags) ==
    LET RECURSIVE from(_)
        from(e) ==
            IF e > Len(d.els) THEN <<>>
            ELSE (IF d.els[e].tag \in tags THEN <<e>> ELSE <<>>) \o from(e + 1)
    IN  from(1)

\* Whether _getElements throws its TypeError (line 391).
getElementsThrows(input) == input.type \notin {"string", "array"}

\* _getElements: a new array of the elements.
getElements(d, input) ==
    IF input.type = "string" THEN querySelectorAll(d, input.tags)
    ELSE input.nodes

\* array.splice(start, 1) for start >= 0: the array without the element at
\* index start (from 0), unchanged when there is none.
splice(arr, start) ==
    IF start >= Len(arr) THEN arr
    ELSE SubSeq(arr, 1, start) \o SubSeq(arr, start + 2, Len(arr))

\* _addBaselineStyles without the test of lines 326-328.
addBaselineStylesUnguarded(n) == n + 1

\* _addBaselineStyles (lines 324-370): the number of style.anchorjs
\* elements in the head after the call.  querySelector never returns
\* undefined, so line 363 inserts the new element (before the first style
\* element, or last when there is none).
addBaselineStyles(n) == IF n # 0 THEN n ELSE n + 1

---------------------------------------------------------------------------
(* add (lines 138-279) *)

\* The loop of lines 190-199 with count going up by 2 (line 198).
RECURSIVE collisionLoopBy2(_, _, _, _, _)
collisionLoopBy2(tidyText, idList, index, count, newTidyText) ==
    LET candidate == IF index # <<>>
                     THEN tidyText \o <<"-">> \o numberToString(count)
                     ELSE newTidyText
        found     == arrayIndexOf(idList, candidate)
    IN  IF found # -1
        THEN collisionLoopBy2(tidyText, idList, <<found>>, count + 2, candidate)
        ELSE candidate

\* The do-while loop of lines 190-199, entered with  index  undefined
\* (index is <<>> for undefined and <<n>> for the number n): the value of
\* newTidyText when it ends.
RECURSIVE collisionLoop(_, _, _, _, _)
collisionLoop(tidyText, idList, index, count, newTidyText) ==
    LET candidate == IF index # <<>>
                     THEN tidyText \o <<"-">> \o numberToString(count)
                     ELSE newTidyText
        found     == arrayIndexOf(idList, candidate)
    IN  IF found # -1
        THEN collisionLoop(tidyText, idList, <<found>>, count + 1, candidate)
        ELSE candidate

\* Lines 190-199 without the loop: the slug is taken as it is.
uniqueIdUnchecked(tidyText, idList) == tidyText

\* Lines 190-199 with the first suffix 0: count is not yet incremented when
\* the first suffix is built.
uniqueIdFromZero(tidyText, idList) ==
    collisionLoop(tidyText, idList, <<>>, -1, tidyText)

\* Lines 190-199 for one element: newTidyText = tidyText, count = 0, loop.
uniqueId(tidyText, idList) ==
    collisionLoop(tidyText, idList, <<>>, 0, tidyText)

\* window.location.pathname + window.location.search when the document has
\* a <base> element, else '' (lines 225-227); opts.base wins (line 228).
hrefBaseOf(d, o) ==
    IF o.base # Empty THEN o.base
    ELSE IF d.hasBase THEN d.location ELSE Empty

\* Line 229 without the identifier: hrefBase + '#'.
hrefWithoutId(d, o, elementID) == hrefBaseOf(d, o) \o <<"#">>

\* anchor.href = hrefBase + '#' + elementID (line 229).
hrefOf(d, o, elementID) == hrefBaseOf(d, o) \o <<"#">> \o elementID

\* isTouchDevice (lines 61-69).
isTouchDevice(d) == d.touch

\* The <a> element of lines 215-267 for elementID, built by manager m under
\* the options o.
AnchorNode(d, o, m, elementID) ==
    [kind       |-> "a",
     el         |-> 0,
     text       |-> Empty,
     className  |-> MarkerPrefix \o o.class,
     href       |-> hrefOf(d, o, elementID),
     ariaLabel  |-> o.ariaLabel,
     icon       |-> o.icon,
     title      |-> o.titleText,
     opacity    |-> IF o.visible = "always" THEN "1"
                    ELSE IF o.visible = "touch" /\ isTouchDevice(d) THEN "1"
                    ELSE "",
     font       |-> IF o.icon = DefaultIcon THEN "1em/1 anchorjs-icons" ELSE "",
     lineHeight |-> IF o.icon = DefaultIcon /\ o.placement = "left"
                    THEN "inherit" ELSE "",
     position   |-> IF o.placement = "left" THEN "absolute" ELSE "",
     marginLeft |-> IF o.placement = "left" THEN "-1.25em" ELSE ".1875em",
     by         |-> m]

\* Lines 258-269: the children of an element after the anchor went in.
insertAnchor(kids, a, placement) ==
    IF placement = "left" THEN <<a>> \o kids ELSE Append(kids, a)

\* Line 175 without its test: no element is skipped.
alreadyAnchoredNever(kids) == FALSE

\* Whether line 175 skips the element (it has an anchor already).
alreadyAnchored(kids) == hasAnchorJSLink(kids)

\* The for loop of lines 174-270 from index i (from 1) on.  st holds what
\* the loop changes: children, idAttr, idList, indexesToDrop, opts, and
\* threw (an exception left the loop: hasAnchorJSLink on an element with
\* no child nodes).
RECURSIVE addLoop(_, _, _, _, _)
addLoop(d, m, elements, i, st) ==
    IF i > Len(elements) THEN st
    ELSE
      LET el   == elements[i]
          kids == st.children[el]
      IN
      IF hasAnchorJSLinkThrows(kids) THEN [st EXCEPT !.threw = "TypeError"]
      ELSE IF alreadyAnchored(kids)
      THEN addLoop(d, m, elements, i + 1,
                   [st EXCEPT !.indexesToDrop = Append(@, i - 1)])
      ELSE
        LET generated == ~st.idAttr[el].has /\ ~d.els[el].dataAnchorId.has
            o2        == IF generated THEN urlifyOpts(st.opts) ELSE st.opts
            tidyText  == urlify(textContent(st.children, el), st.opts)
            newTidyText == uniqueId(tidyText, st.idList)
            elementID ==
                IF st.idAttr[el].has THEN st.idAttr[el].val
                ELSE IF d.els[el].dataAnchorId.has
                THEN d.els[el].dataAnchorId.val
                ELSE newTidyText
            anchor    == AnchorNode(d, o2, m, elementID)
        IN  addLoop(d, m, elements, i + 1,
              [st EXCEPT
                 !.opts     = o2,
                 !.idList   = IF generated THEN Append(@, newTidyText) ELSE @,
                 !.idAttr   = IF generated
                              THEN [@ EXCEPT ![el] = Attr(newTidyText)] ELSE @,
                 !.children = [@ EXCEPT
                                 ![el] = insertAnchor(@, anchor, o2.placement)]])

\* Lines 272-274 splicing at indexesToDrop[i], without the  - i  that makes
\* up for the elements already spliced out.
RECURSIVE dropIndexesUncompensated(_, _, _)
dropIndexesUncompensated(elements, indexesToDrop, i) ==
    IF i >= Len(indexesToDrop) THEN elements
    ELSE dropIndexesUncompensated(splice(elements, indexesToDrop[i + 1]),
                                  indexesToDrop, i + 1)

\* Lines 272-274: the elements with the skipped ones spliced out.
RECURSIVE dropIndexes(_, _, _)
dropIndexes(elements, indexesToDrop, i) ==
    IF i >= Len(indexesToDrop) THEN elements
    ELSE dropIndexes(splice(elements, indexesToDrop[i + 1] - i),
                     indexesToDrop, i + 1)

\* What a call works on and leaves behind: the document's mutable part,
\* the caller's opts and els, the value returned (the manager, or 0 for
\* undefined) and the error thrown ("" for none).
World(ch, ids, st, o, e) ==
    [children |-> ch, idAttr |-> ids, styles |-> st, opts |-> o, els |-> e,
     returned |-> 0, threw |-> ""]

\* Lines 162-164 without the test: add goes on with an empty batch.
nothingToAnchorNever(elements) == FALSE

\* elements.length === 0 (line 162).
nothingToAnchor(elements) == Len(elements) = 0

\* add(selector) called on manager m in world w (lines 138-279).
add(d, w, m, selector) ==
    LET o1  == applyRemainingDefaultOptions(w.opts)
        sel == IF notGiven(selector) THEN DefaultSelector ELSE selector
        elements == getElements(d, sel)
        st  == addLoop(d, m, elements, 1,
                       [children      |-> w.children,
                        idAttr        |-> w.idAttr,
                        idList        |-> idListOf(w.idAttr),
                        indexesToDrop |-> <<>>,
                        opts          |-> o1,
                        threw         |-> ""])
    IN  IF getElementsThrows(sel)
        THEN [w EXCEPT !.opts = o1, !.threw = "TypeError"]
        ELSE IF nothingToAnchor(elements)
        THEN [w EXCEPT !.opts = o1, !.returned = m]
        ELSE [children |-> st.children,
              idAttr   |-> st.idAttr,
              styles   |-> addBaselineStyles(w.styles),
              opts     |-> st.opts,
              els      |-> IF st.threw # "" THEN w.els
                           ELSE w.els \o dropIndexes(elements,
                                                     st.indexesToDrop, 0),
              returned |-> IF st.threw # "" THEN 0 ELSE m,
              threw    |-> st.threw]

---------------------------------------------------------------------------
(* remove (lines 289-309) and removeAll (lines 314-316) *)

\* The for loop of lines 294-306 from index i (from 1) on.  st holds
\* children, els and threw: removeChild throws a NotFoundError when the
\* anchor found is not a child of the element.
RECURSIVE removeLoop(_, _, _)
removeLoop(elements, i, st) ==
    IF i > Len(elements) THEN st
    ELSE
      LET el        == elements[i]
          domAnchor == querySelectorAnchor(st.children, el)
          index     == arrayIndexOf(st.els, el)
          els2      == IF index # -1 THEN splice(st.els, index) ELSE st.els
      IN  IF domAnchor = NullRef THEN removeLoop(elements, i + 1, st)
          ELSE IF domAnchor[1] # el
          THEN [st EXCEPT !.els = els2, !.threw = "NotFoundError"]
          ELSE removeLoop(elements, i + 1,
                 [st EXCEPT
                    !.els = els2,
                    !.children = [@ EXCEPT
                                    ![el] = splice(@, domAnchor[2] - 1)]])

\* remove(selector) called on manager m in world w.
remove(d, w, m, selector) ==
    LET elements == getElements(d, selector)
        st == removeLoop(elements, 1,
                         [children |-> w.children, els |-> w.els,
                          threw |-> ""])
    IN  IF getElementsThrows(selector) THEN [w EXCEPT !.threw = "TypeError"]
        ELSE [w EXCEPT !.children = st.children,
                       !.els      = st.els,
                       !.returned = IF st.threw # "" THEN 0 ELSE m,
                       !.threw    = st.threw]

\* removeAll with  return this.remove(this.els).
removeAllReturning(d, w, m) == remove(d, w, m, SelArray(w.els))

\* removeAll() called on manager m in world w: this.remove(this.els), with
\* no return statement.
removeAll(d, w, m) ==
    [remove(d, w, m, SelArray(w.els)) EXCEPT !.returned = 0]

---------------------------------------------------------------------------
(* Documents and inputs of the model *)

\* The largest collision suffix a document of the model holds: the ids
\* taken at the start are drawn from intro, intro-0, ..., intro-MaxSuffix.
MaxSuffix == 1

Intro == <<"i", "n", "t", "r", "o">>
Foo == <<"f", "o", "o">>
Custom == <<"c", "u", "s", "t", "o", "m">>
ExampleClass ==
    <<"e", "x", "a", "m", "p", "l", "e", "-", "c", "l", "a", "s", "s">>
TheH1Tag == <<"T", "h", "e", " ", "h", "1", " ", "t", "a", "g">>
TheH2Tag == <<"T", "h", "e", " ", "h", "2", " ", "t", "a", "g">>
DontStop == <<"D", "o", "n", "'", "t", " ", "S", "t", "o", "p">>

\* An element: its tag, its parent (0 at the top), its own text (a text
\* node, its first child, when present), and its id and data-anchor-id
\* attributes as the document is loaded.
Element(tag, parent, text, id, dataAnchorId) ==
    [tag |-> tag, parent |-> parent, text |-> text, id |-> id,
     dataAnchorId |-> dataAnchorId]

Document(elements, hasBase, location, touch) ==
    [els |-> elements, hasBase |-> hasBase, location |-> location,
     touch |-> touch]

\* The page of test/index.ts and of the example (README, index.ts lines
\* 397-420): h1 and h2 headings, none with an id.
TestDocument ==
    Document(<< Element("h1", 0, Attr(TheH1Tag), NoAttr, NoAttr),
                Element("h2", 0, Attr(TheH2Tag), NoAttr, NoAttr) >>,
             FALSE, Empty, TRUE)

\* intro, intro-0, ..., intro-MaxSuffix.
IdPool == {Intro} \cup {Intro \o <<"-">> \o numberToString(k) : k \in 0..MaxSuffix}

\* The ids of a set of the pool, in a fixed order (shortest, lowest first).
RECURSIVE poolOrder(_, _)
poolOrder(taken, k) ==
    IF k > MaxSuffix THEN <<>>
    ELSE (IF Intro \o <<"-">> \o numberToString(k) \in taken
          THEN <<Intro \o <<"-">> \o numberToString(k)>> ELSE <<>>)
         \o poolOrder(taken, k + 1)

\* A document where two headings have the slug intro and the ids of  taken
\* are in use by div elements that follow them.
CollisionDocument(taken) ==
    LET ids == (IF Intro \in taken THEN <<Intro>> ELSE <<>>)
                  \o poolOrder(taken, 0)
    IN  Document(<< Element("h2", 0, Attr(<<"I", "n", "t", "r", "o">>),
                            NoAttr, NoAttr),
                    Element("h3", 0, Attr(<<" ", "i", "n", "t", "r", "o", "!">>),
                            NoAttr, NoAttr) >>
                 \o [i \in 1..Len(ids) |->
                       Element("div", 0, Attr(<<"x">>), Attr(ids[i]), NoAttr)],
                 FALSE, Empty, FALSE)

\* A page with a <base> element where a heading is inside a section:
\* <section>A<h3>B</h3></section><h2>Don't Stop</h2>.
NestedDocument ==
    Document(<< Element("section", 0, Attr(<<"A">>), NoAttr, NoAttr),
                Element("h3", 1, Attr(<<"B">>), NoAttr, NoAttr),
                Element("h2", 0, Attr(DontStop), NoAttr, NoAttr) >>,
             TRUE, <<"/", "p">>, FALSE)

\* Headings that bring their ids (the same one twice), a heading with no
\* child nodes and a heading with a data-anchor-id:
\* <h2 id="foo">Bar</h2><h2></h2><h3 id="foo">Baz</h3>
\* <h4 data-anchor-id="custom">Qux</h4>.
IdsDocument ==
    Document(<< Element("h2", 0, Attr(<<"B", "a", "r">>), Attr(Foo), NoAttr),
                Element("h2", 0, NoAttr, NoAttr, NoAttr),
                Element("h3", 0, Attr(<<"B", "a", "z">>), Attr(Foo), NoAttr),
                Element("h4", 0, Attr(<<"Q", "u", "x">>), NoAttr, Attr(Custom)) >>,
             FALSE, Empty, FALSE)

Documents ==
    {TestDocument, NestedDocument, IdsDocument}
        \cup {CollisionDocument(taken) : taken \in SUBSET IdPool}

\* The child nodes of element e as the document is loaded: its text node,
\* then its child elements.
initialChildren(d, e) ==
    LET RECURSIVE kidsFrom(_)
        kidsFrom(c) ==
            IF c > Len(d.els) THEN <<>>
            ELSE (IF d.els[c].parent = e THEN <<ElNode(c)>> ELSE <<>>)
                 \o kidsFrom(c + 1)
    IN  (IF d.els[e].text.has THEN <<TextNode(d.els[e].text.val)>> ELSE <<>>)
           \o kidsFrom(1)

\* The options objects callers pass.
OptionChoices ==
    { NoOpts,
      [NoOpts EXCEPT !.class = ExampleClass, !.visible = "touch",
                     !.placement = "left"] }

\* The arguments callers pass to add and remove.
Selectors ==
    {SelUndefined, SelNull, SelOther, SelString({"h2"}),
     SelString({"section", "h3"}), SelString({"h3", "h4"}), SelArray(<<>>),
     SelArray(<<1>>), SelArray(<<1, 1>>)}

---------------------------------------------------------------------------
(* The state machine *)

\* No call yet.
NoCall ==
    [op |-> "none", m |-> 0, selector |-> SelUndefined, options |-> NoOpts,
     again |-> FALSE, trip |-> 0, returned |-> 0, threw |-> "",
     text |-> Empty, slug |-> Empty]

\* The record of a call: its selector argument (add, remove) or options
\* argument (new Anchor, anchor), the value it returned and the error it
\* threw; again tells that the call before it was the same call (same
\* operation, manager and argument).  For urlify, text is the argument,
\* slug the string returned and options the manager's options object as
\* the call found it.  trip tells how far the calls of the manager have
\* come in add(S); remove(S); add(S) with one argument S: 1 after an add,
\* 2 after the remove that followed it, 3 after the add that followed
\* that, 0 otherwise.
Call(op, m, selector, o, w) ==
    [op |-> op, m |-> m, selector |-> selector, options |-> o,
     again |-> (last.op = op /\ last.m = m /\ last.selector = selector),
     trip |-> IF op = "add" /\ last.op = "remove" /\ last.trip = 2
                    /\ last.m = m /\ last.selector = selector
              THEN 3
              ELSE IF op = "remove" /\ last.op = "add" /\ last.m = m
                         /\ last.selector = selector
              THEN 2
              ELSE IF op = "add" THEN 1
              ELSE 0,
     returned |-> w.returned, threw |-> w.threw, text |-> Empty,
     slug |-> Empty]

\* The state after the page loaded document d: no Anchor object yet.
Loaded(d) ==
    /\ doc = d
    /\ children = [e \in 1..Len(doc.els) |-> initialChildren(doc, e)]
    /\ idAttr = [e \in 1..Len(doc.els) |-> doc.els[e].id]
    /\ styles = 0
    /\ live = [m \in Managers |-> FALSE]
    /\ opts = [m \in Managers |-> NoOpts]
    /\ els = [m \in Managers |-> <<>>]
    /\ last = NoCall

Init == \E d \in Documents : Loaded(d)

\* The world manager m acts in.
world(m) == World(children, idAttr, styles, opts[m], els[m])

\* The state after a call of manager m that left the world w.
Becomes(m, w) ==
    /\ children' = w.children
    /\ idAttr' = w.idAttr
    /\ styles' = w.styles
    /\ opts' = [opts EXCEPT ![m] = w.opts]
    /\ els' = [els EXCEPT ![m] = w.els]
    /\ UNCHANGED doc

\* new Anchor(o) (lines 27-33).
New(m, o) ==
    /\ ~live[m]
    /\ live' = [live EXCEPT ![m] = TRUE]
    /\ opts' = [opts EXCEPT ![m] = applyRemainingDefaultOptions(o)]
    /\ last' = Call("new", m, SelUndefined, o, [returned |-> m, threw |-> ""])
    /\ UNCHANGED <<doc, children, idAttr, styles, els>>

\* anchor(o) (lines 16-21): new Anchor(o), then add().  The caller holds
\* the manager only when add returned.
Anchor(m, o) ==
    LET w == add(doc, World(children, idAttr, styles,
                            applyRemainingDefaultOptions(o), <<>>),
                 m, SelUndefined)
    IN  /\ ~live[m]
        /\ live' = [live EXCEPT ![m] = (w.threw = "")]
        /\ Becomes(m, w)
        /\ last' = Call("anchor", m, SelUndefined, o, w)

\* m.add(selector)
Add(m, selector) ==
    LET w == add(doc, world(m), m, selector)
    IN  /\ live[m]
        /\ Becomes(m, w)
        /\ last' = Call("add", m, selector, NoOpts, w)
        /\ UNCHANGED live

\* m.remove(selector)
Remove(m, selector) ==
    LET w == remove(doc, world(m), m, selector)
    IN  /\ live[m]
        /\ Becomes(m, w)
        /\ last' = Call("remove", m, selector, NoOpts, w)
        /\ UNCHANGED live

\* m.removeAll()
RemoveAll(m) ==
    LET w == removeAll(doc, world(m), m)
    IN  /\ live[m]
        /\ Becomes(m, w)
        /\ last' = Call("removeAll", m, SelUndefined, NoOpts, w)
        /\ UNCHANGED live

\* m.urlify(text) (lines 99-128): returns the slug; the options object gets
\* its defaults when truncate is falsy (lines 114-116).
Urlify(m, text) ==
    /\ live[m]
    /\ opts' = [opts EXCEPT ![m] = urlifyOpts(opts[m])]
    /\ last' = [Call("urlify", m, SelUndefined, opts[m],
                     [returned |-> 0, threw |-> ""])
                   EXCEPT !.text = text, !.slug = urlify(text, opts[m])]
    /\ UNCHANGED <<doc, children, idAttr, styles, live, els>>

\* m.opts = o: the caller replaces the options object (opts is a public
\* field; lines 148-153 reckon with it).
SetOpts(m, o) ==
    /\ live[m]
    /\ opts' = [opts EXCEPT ![m] = o]
    /\ last' = Call("opts", m, SelUndefined, o, [returned |-> 0, threw |-> ""])
    /\ UNCHANGED <<doc, children, idAttr, styles, live, els>>

\* A call on (or creating) manager m.
Step(m, choices, selectors) ==
    \/ New(m, ConstructorDefault)
    \/ \E o \in choices : New(m, o)
    \/ \E o \in choices : Anchor(m, o)
    \/ \E s \in selectors : Add(m, s)
    \/ \E s \in selectors : Remove(m, s)
    \/ RemoveAll(m)

\* One Anchor object working on any of the documents.
Next == Step(1, OptionChoices, Selectors)

Spec == Init /\ [][Next]_vars

\* Two Anchor objects working on the test page: the page's own object, on
\* which every method is called, and an object that a call of anchor(opts)
\* returned and that is asked to removeAll().
InitShared == Loaded(TestDocument)

NextShared ==
    \/ Step(1, OptionChoices, Selectors)
    \/ \E o \in OptionChoices : Anchor(2, o)
    \/ RemoveAll(2)

SpecShared == InitShared /\ [][NextShared]_vars

\* The options objects that set truncate: to the length of the slug intro,
\* to less, to a value with a fraction (3.5), or not at all.
TruncateChoices ==
    { NoOpts,
      [NoOpts EXCEPT !.truncate = Number(5, FALSE)],
      [NoOpts EXCEPT !.truncate = Number(3, FALSE)],
      [NoOpts EXCEPT !.truncate = Number(3, TRUE)] }

\* One Anchor object with a truncate option working on the documents whose
\* headings collide.
InitTruncate == \E taken \in SUBSET IdPool : Loaded(CollisionDocument(taken))

NextTruncate ==
    Step(1, TruncateChoices,
         {SelUndefined, SelString({"h2"}), SelString({"h3"})})

SpecTruncate == InitTruncate /\ [][NextTruncate]_vars

\* The longest text built from TextChars that urlify is given.
MaxText == 3

\* Characters of the texts: a letter, a space (unsafe), an apostrophe and a
\* hyphen.
TextChars == {"a", " ", "'", "-"}

\* A text longer than the default truncate: 70 letters.
LongText == [i \in 1..70 |-> "a"]

\* 'a&nbsp;b&amp;'
EntityText ==
    <<"a", "&", "n", "b", "s", "p", ";", "b", "&", "a", "m", "p", ";">>

\* 'a\u0000b'
NullText == <<"a", Null, "b">>

\* The texts urlify is given: every text of TextChars up to MaxText long,
\* the texts of the test, a text with character references, a long text, a
\* text with U+0000.
Texts ==
    UNION {[1..n -> TextChars] : n \in 0..MaxText}
       \cup {TheH1Tag, TheH2Tag, DontStop, EntityText, LongText, NullText}

\* The values of truncate: missing (or 0), -1, -0.5, 0.5, 1, 2, 2.5, 70.
TruncateValues ==
    {Number(0, FALSE), Number(-1, FALSE), Number(-1, TRUE), Number(0, TRUE),
     Number(1, FALSE), Number(2, FALSE), Number(2, TRUE), Number(70, FALSE)}

UrlifyChoices == {[NoOpts EXCEPT !.truncate = x] : x \in TruncateValues}

\* The options objects a caller assigns: those the constructor would have
\* changed (truncate missing, or with a fraction).
RawChoices == {o \in UrlifyChoices : o.truncate.frac \/ ~truthy(o.truncate)}

\* One Anchor object whose urlify is called on the texts, under every
\* value of truncate.
InitUrlify == Loaded(TestDocument)

NextUrlify ==
    \/ \E o \in UrlifyChoices : New(1, o)
    \/ \E o \in RawChoices : SetOpts(1, o)
    \/ \E text \in Texts : Urlify(1, text)

SpecUrlify == InitUrlify /\ [][NextUrlify]_vars

---------------------------------------------------------------------------
(* What the claims speak of *)

\* The elements the last call resolved its argument to.
resolved(call) ==
    IF call.op \in {"add", "anchor"}
    THEN getElements(doc, IF notGiven(call.selector)
                          THEN DefaultSelector ELSE call.selector)
    ELSE IF call.op = "remove" /\ ~getElementsThrows(call.selector)
    THEN getElements(doc, call.selector)
    ELSE <<>>

\* The anchors among the child nodes of element e.
anchorsOf(ch, e) == SelectSeq(ch[e], LAMBDA n : n.kind = "a")

\* Element e has an id that add generated.
hasGeneratedId(ids, e) == ids[e].has /\ ~doc.els[e].id.has

\* The ids in use in the document.
idsInUse(ids) == {ids[e].val : e \in {f \in Elems : ids[f].has}}

---------------------------------------------------------------------------
(* C1 *)

---------------------------------------------------------------------------
(* C2, C3, C4: generated ids *)

\* The elements a step gave an id (add sets an id on the generated path
\* only).
newlyIdentified == {e \in Elems : ~idAttr[e].has /\ idAttr'[e].has}

\* The registry (idList) as add holds it when it reaches the element at
\* index i of its batch: the ids of the document when add started and the
\* ids this add generated for the elements before index i.
registryAt(batch, i) ==
    idsInUse(idAttr)
        \cup {idAttr'[batch[j]].val :
                 j \in {k \in 1..(i - 1) : batch[k] \in newlyIdentified}}

\* The indices of the batch at which this step generated an id: the first
\* occurrence of each element that got one.
generatedAt(batch) ==
    {i \in 1..Len(batch) :
        /\ batch[i] \in newlyIdentified
        /\ \A j \in 1..(i - 1) : batch[j] # batch[i]}

\* slug + '-' + n
suffixed(slug, n) == slug \o <<"-">> \o numberToString(n)

\* The slug, or the slug with the least suffix from  from  on that is not in
\* the registry.
leastFree(slug, registry, from) ==
    IF slug \notin registry THEN slug
    ELSE suffixed(slug,
           CHOOSE n \in from..(from + Cardinality(registry)) :
              /\ suffixed(slug, n) \notin registry
              /\ \A k \in from..(n - 1) : suffixed(slug, k) \in registry)

\* The slug urlify gives element e in the call that just ended.
slugOf(e) == urlify(textContent(children, e), opts'[last'.m])

\* C2: generated ids never duplicate.  In every add, each id generated
\* differs from every id the document held when the add started and from
\* every other id generated in that add; so in every state, an element with
\* a generated id shares it with no other element.
C2_GeneratedIdsUnique ==
    /\ [][ (last'.op \in {"add", "anchor"})
              => \A e \in newlyIdentified :
                    /\ idAttr'[e].val \notin idsInUse(idAttr)
                    /\ \A f \in newlyIdentified \ {e} :
                          idAttr'[f].val # idAttr'[e].val ]_vars
    /\ [](\A e \in Elems : \A f \in Elems \ {e} :
             (hasGeneratedId(idAttr, e) /\ idAttr[f].has)
                => idAttr[f].val # idAttr[e].val)

\* Two headings with the same slug both have a generated id, in a document
\* that held the slug as an id from the start.
C2_Witness ==
    /\ \E e \in Elems : doc.els[e].id = Attr(Intro)
    /\ \E e \in Elems : \E f \in Elems \ {e} :
          hasGeneratedId(idAttr, e) /\ hasGeneratedId(idAttr, f)

\* C3 as claimed: on the generated path add assigns the slug when it is not
\* in the registry, and else slug-N for the least N counting up from 0 with
\* slug-N not in the registry.
C3_SuffixFromZero ==
    [][ (last'.op \in {"add", "anchor"})
           => \A i \in generatedAt(resolved(last')) :
                 idAttr'[resolved(last')[i]].val
                    = leastFree(slugOf(resolved(last')[i]),
                                registryAt(resolved(last'), i), 0) ]_vars

\* C3 amended: the suffix counts up from 1.  On the generated path add
\* assigns the slug when it is not in the registry, and else slug-N for the
\* least N >= 1 with slug-N not in the registry.
C3_SuffixFromOne ==
    [][ (last'.op \in {"add", "anchor"})
           => \A i \in generatedAt(resolved(last')) :
                 idAttr'[resolved(last')[i]].val
                    = leastFree(slugOf(resolved(last')[i]),
                                registryAt(resolved(last'), i), 1) ]_vars

\* With only intro taken, a heading whose slug is intro has received
\* intro-1.
C3_Witness ==
    /\ {doc.els[e].id.val : e \in {f \in Elems : doc.els[f].id.has}} = {Intro}
    /\ \E e \in Elems :
          hasGeneratedId(idAttr, e) /\ idAttr[e].val = suffixed(Intro, 1)

\* C4: when the registry holds s, s-0, ..., s-(k-1) for some k >= 1 and not
\* s-k, a heading whose generated slug is s is assigned exactly s-k.
C4_FirstFreeSuffix ==
    [][ (last'.op \in {"add", "anchor"})
           => \A i \in generatedAt(resolved(last')) :
                 LET s   == slugOf(resolved(last')[i])
                     reg == registryAt(resolved(last'), i)
                 IN  \A k \in 1..(MaxSuffix + 2) :
                        ( /\ s \in reg
                          /\ \A j \in 0..(k - 1) : suffixed(s, j) \in reg
                          /\ suffixed(s, k) \notin reg )
                           => idAttr'[resolved(last')[i]].val = suffixed(s, k)
      ]_vars

\* The document held intro and intro-0 (and not intro-1), and a heading
\* whose slug is intro has received intro-1.
C4_Witness ==
    /\ {doc.els[e].id.val : e \in {f \in Elems : doc.els[f].id.has}}
          = {Intro, suffixed(Intro, 0)}
    /\ \E e \in Elems :
          hasGeneratedId(idAttr, e) /\ idAttr[e].val = suffixed(Intro, 1)

---------------------------------------------------------------------------
(* C5 to C10 *)

\* C5: add never renames a pre-existing id.  Every element that add
\* resolved and that had an id attribute keeps that attribute as it was and
\* has, when add ends, an anchor whose href ends in '#' + that id, whatever
\* ids the other elements have.
C5_ReusedIdAnchored ==
    [][ (last'.op \in {"add", "anchor"})
           => \A i \in 1..Len(resolved(last')) :
                 LET e == resolved(last')[i]
                 IN  idAttr[e].has
                        => /\ idAttr'[e] = idAttr[e]
                           /\ \E k \in 1..Len(children'[e]) :
                                 /\ children'[e][k].kind = "a"
                                 /\ endsWith(children'[e][k].href,
                                             <<"#">> \o idAttr[e].val) ]_vars

\* Element e carries an anchor: an anchor is among its child nodes.
carriesAnchor(ch, e) == anchorsOf(ch, e) # <<>>

\* C6: removal symmetry.  remove(S) detaches the anchor of exactly the
\* resolved elements that carry one, removes exactly those elements from
\* els, and touches no other element's anchor or tracking; the same
\* remove(S) called again right after changes neither the document nor els.
C6_RemovalSymmetry ==
    [][ (last'.op = "remove" /\ ~getElementsThrows(last'.selector))
           => LET hit == {e \in Elems :
                            /\ \E i \in 1..Len(resolved(last')) :
                                  resolved(last')[i] = e
                            /\ carriesAnchor(children, e)}
              IN  /\ children' =
                        [e \in Elems |->
                            IF e \in hit
                            THEN SelectSeq(children[e], LAMBDA n : n.kind # "a")
                            ELSE children[e]]
                  /\ els'[last'.m] =
                        SelectSeq(els[last'.m], LAMBDA e : e \notin hit)
                  /\ last'.again =>
                        (children' = children /\ els' = els) ]_vars

\* The headings of levels 2 through 6.
DefaultTags == {"h2", "h3", "h4", "h5", "h6"}

\* C7: with no selector argument add (and so anchor(opts)) processes
\* exactly the headings of levels 2 through 6.  Every such heading without
\* an id (and without a data-anchor-id, which stands in for the id) has,
\* when add ends, the id derived from its text (its slug, with a collision
\* suffix when the slug is taken) and an anchor; no h1 element has received
\* an id or an anchor.
C7_DefaultSelector ==
    [][ ((last'.op = "add" /\ last'.selector = SelUndefined)
            \/ last'.op = "anchor")
           => \A e \in Elems :
                 /\ ( /\ doc.els[e].tag \in DefaultTags
                      /\ ~idAttr[e].has
                      /\ ~doc.els[e].dataAnchorId.has )
                       => /\ idAttr'[e].has
                          /\ \/ idAttr'[e].val = slugOf(e)
                             \/ \E n \in 0..(MaxSuffix + 2) :
                                   idAttr'[e].val = suffixed(slugOf(e), n)
                          /\ carriesAnchor(children', e)
                 /\ doc.els[e].tag = "h1"
                       => /\ idAttr'[e] = idAttr[e]
                          /\ children'[e] = children[e] ]_vars

\* C8: anchor() with no options uses visible: 'always' and placement:
\* 'right': every anchor it created is the last child of its heading and
\* has full opacity set inline.  (The manager is new, so when anchor()
\* returns the anchors of the document are the ones it created.)
C8_AnchorFunctionDefaults ==
    (last.op = "anchor" /\ last.options = NoOpts)
       => \A e \in Elems : \A k \in 1..Len(children[e]) :
             (children[e][k].kind = "a" /\ children[e][k].by = last.m)
                => /\ k = Len(children[e])
                   /\ children[e][k].opacity = "1"

\* C9: no element occurs more than once in any manager's els.
C9_NoDuplicates ==
    \A m \in Managers : \A i \in 1..Len(els[m]) : \A j \in 1..Len(els[m]) :
       i # j => els[m][i] # els[m][j]

\* C10 as claimed: add, remove and removeAll each return the manager they
\* were called on whenever they complete normally.
C10_AllReturnThis ==
    (last.op \in {"add", "remove", "removeAll"} /\ last.threw = "")
       => last.returned = last.m

\* C10 amended: add and remove each return the manager they were called on
\* whenever they complete normally; removeAll returns no value (undefined).
C10_AddRemoveReturnThis ==
    /\ (last.op \in {"add", "remove"} /\ last.threw = "")
          => last.returned = last.m
    /\ last.op = "removeAll" => last.returned = 0

\* removeAll completed normally after detaching an anchor it tracked.
C10_Witness ==
    /\ last.op = "removeAll" /\ last.threw = ""
    /\ els[last.m] = <<>>
    /\ \E e \in Elems : hasGeneratedId(idAttr, e) /\ ~carriesAnchor(children, e)

---------------------------------------------------------------------------
(* C11 to C13 *)

\* C11: removeAll is remove applied to the tracked set.  When removeAll
\* returns, the manager's els is empty and no element that was in els
\* before the call carries an anchor, whatever calls of this or another
\* manager came before.
C11_RemoveAllEmpties ==
    [][ (last'.op = "removeAll" /\ last'.threw = "")
           => /\ els'[last'.m] = <<>>
              /\ \A i \in 1..Len(els[last'.m]) :
                    ~carriesAnchor(children', els[last'.m][i]) ]_vars

\* What a call can change outside the options: the document (child nodes
\* and so anchors, ids, the style element) and the tracked sets.
untouched ==
    /\ children' = children
    /\ idAttr' = idAttr
    /\ styles' = styles
    /\ els' = els

\* C12: when the argument of add resolves to zero elements, add returns
\* normally (it returns the manager) and has no effect: no style element is
\* injected, no id is set, no anchor is created and els is unchanged.
C12_ZeroElementsNoEffect ==
    [][ ( /\ last'.op = "add"
          /\ last'.selector.type \in {"string", "array"}
          /\ Len(resolved(last')) = 0 )
           => (last'.threw = "" /\ last'.returned = last'.m /\ untouched) ]_vars

\* add was called with an empty array, or with a selector that matches
\* nothing, on a document that has no style element yet.
C12_Witness ==
    /\ last.op = "add" /\ last.threw = ""
    /\ last.selector \in {SelArray(<<>>), SelString({"h3", "h4"})}
    /\ Len(resolved(last)) = 0
    /\ styles = 0

\* C13: an argument of add or remove that is neither a string nor an array
\* nor a NodeList is rejected with a TypeError before any mutation: the
\* ids, anchors, style element and els are after the call as before it.
C13_InvalidInputRejected ==
    [][ ( /\ last'.op \in {"add", "remove"}
          /\ last'.selector.type \in {"null", "other"} )
           => (last'.threw = "TypeError" /\ untouched) ]_vars

---------------------------------------------------------------------------
(* C14 *)

\* C14: truncate is the maximum identifier length.  Every id that add
\* generates and assigns, collision suffix included, is at most as long as
\* the truncate value of the manager (64 when none was configured).
C14_TruncateBoundsId ==
    [][ (last'.op \in {"add", "anchor"})
           => \A e \in newlyIdentified :
                 Len(idAttr'[e].val) <= opts'[last'.m].truncate.int ]_vars

---------------------------------------------------------------------------
(* C15 to C17: urlify *)

\* A number is positive.
positive(x) == x.int > 0 \/ (x.int = 0 /\ x.frac)

\* The text as urlify has it before truncation: decoded, trimmed, without
\* apostrophes, unsafe characters replaced, hyphen runs collapsed.
hyphenated(text) ==
    collapseHyphens(replaceNonsafe(removeApostrophes(trim(decodeHTML(text)))))

\* The slug of a text cut at n characters.
cutAt(text, n) == toLowerCase(trimHyphens(substring(hyphenated(text), n)))

\* C15: the effective truncation length of urlify is 64 whenever the
\* configured truncate is missing, zero or negative, and floor(truncate)
\* for every positive value.
C15_EffectiveTruncate ==
    last.op = "urlify"
       => last.slug =
             cutAt(last.text,
                   IF positive(last.options.truncate)
                   THEN mathFloor(last.options.truncate).int
                   ELSE DefaultTruncate)

\* The length urlify truncates to under the options it was called with.
truncatedTo(call) == toInteger(urlifyOpts(call.options).truncate)

\* C16: truncation, then trimming.  For every text and every truncate
\* value the result of urlify neither starts nor ends with a hyphen, also
\* when truncation cuts the text right after a hyphen.
C16_NoDanglingHyphen ==
    (last.op = "urlify" /\ last.slug # Empty)
       => (Head(last.slug) # "-" /\ last.slug[Len(last.slug)] # "-")

\* urlify cut the text right after a hyphen that had characters on both
\* sides, and returned a slug.
C16_Witness ==
    /\ last.op = "urlify" /\ last.slug # Empty
    /\ truncatedTo(last) > 1
    /\ truncatedTo(last) < Len(hyphenated(last.text))
    /\ hyphenated(last.text)[truncatedTo(last)] = "-"

\* What a character of the text gives the slug: nothing for an apostrophe,
\* a hyphen for any other unsafe character, itself otherwise.
contribution(c) ==
    IF c = "'" THEN Empty
    ELSE IF c \in nonsafeChars THEN <<"-">>
    ELSE <<c>>

\* The contributions of the characters of s from index i on.
RECURSIVE contributions(_, _)
contributions(s, i) ==
    IF i > Len(s) THEN Empty
    ELSE contribution(s[i]) \o contributions(s, i + 1)

DontStopSlug == <<"d", "o", "n", "t", "-", "s", "t", "o", "p">>

\* C17: urlify deletes apostrophes instead of hyphenating them.  For every
\* text the slug is what the characters contribute, an apostrophe nothing
\* and every other unsafe character a hyphen (runs collapsed, the text
\* truncated, hyphens trimmed, lower-cased); no slug holds an apostrophe,
\* and "Don't Stop" gives dont-stop when truncate leaves room for it.
C17_ApostrophesDeleted ==
    last.op = "urlify"
       => /\ last.slug =
                toLowerCase(trimHyphens(substring(
                    collapseHyphens(
                        contributions(trim(decodeHTML(last.text)), 1)),
                    truncatedTo(last))))
          /\ \A i \in 1..Len(last.slug) : last.slug[i] # "'"
          /\ (last.text = DontStop /\ truncatedTo(last) >= Len(DontStopSlug))
                => last.slug = DontStopSlug

\* urlify was given "Don't Stop" and returned dont-stop.
C17_Witness ==
    last.op = "urlify" /\ last.text = DontStop /\ last.slug = DontStopSlug

---------------------------------------------------------------------------
(* C18 to C20 *)

\* C18: baseline styles are injected once per document.  Whatever the
\* managers call, the head holds at most one style.anchorjs element; no
\* call removes it; and it is there after every add that resolved at least
\* one element.
C18_StylesOnce ==
    /\ [](styles <= 1)
    /\ [][ /\ styles' >= styles
           /\ (last'.op \in {"add", "anchor"} /\ Len(resolved(last')) > 0)
                 => styles' = 1 ]_vars

\* The second manager's add (in anchor(opts)) resolved an element after the
\* first manager had anchored one, and the head holds one style element.
C18_Witness ==
    /\ last.op = "anchor" /\ last.m = 2 /\ Len(resolved(last)) > 0
    /\ els[1] # <<>>
    /\ styles = 1

\* C19: a heading with no text content is not an error.  An add whose
\* batch holds a heading with empty text (one with no child nodes included)
\* that is not anchored yet completes normally; the heading has an anchor
\* when add ends, and when it had neither an id nor a data-anchor-id it
\* has the id that collision resolution gives the empty slug.
C19_EmptyHeadingAnchored ==
    [][ (last'.op \in {"add", "anchor"})
           => \A i \in 1..Len(resolved(last')) :
                 LET e == resolved(last')[i]
                 IN  ( /\ textContent(children, e) = Empty
                       /\ ~carriesAnchor(children, e) )
                        => /\ last'.threw = ""
                           /\ carriesAnchor(children', e)
                           /\ i \in generatedAt(resolved(last'))
                                 => idAttr'[e].val =
                                       leastFree(Empty,
                                                 registryAt(resolved(last'), i),
                                                 1) ]_vars

\* C20: add is atomic.  When an add ends, by returning or by throwing,
\* either every element of its batch has been processed (it carries an
\* anchor) and those that add anchored are in els, or the document and els
\* are as they were before the call.
C20_AddAtomic ==
    [][ (last'.op \in {"add", "anchor"})
           => \/ untouched
              \/ \A i \in 1..Len(resolved(last')) :
                    LET e == resolved(last')[i]
                    IN  /\ carriesAnchor(children', e)
                        /\ ~carriesAnchor(children, e)
                              => arrayIndexOf(els'[last'.m], e) # -1 ]_vars

---------------------------------------------------------------------------
(* C21 to C25 *)

\* The class attribute of a node holds the class c (any node does when c is
\* the empty string: no class was configured).
hasClass(node, c) ==
    \/ c = Empty
    \/ indexOf(<<" ">> \o node.className \o <<" ">>,
               <<" ">> \o c \o <<" ">>) > -1

\* The anchors a step created: the anchor nodes of element e that were not
\* among its children before.
created(e) ==
    {k \in 1..Len(children'[e]) :
        /\ children'[e][k].kind = "a"
        /\ \A j \in 1..Len(children[e]) : children[e][j] # children'[e][k]}

\* C21: every anchor that add creates carries the marker class
\* anchorjs-link together with the class of the options; after
\* anchor({class: C}) each h2-h6 heading that was not anchored has among
\* its children an a element with the marker class and the class C.
C21_ConfiguredClass ==
    [][ /\ (last'.op \in {"add", "anchor"})
              => \A e \in Elems : \A k \in created(e) :
                    /\ hasMarkerClass(children'[e][k])
                    /\ hasClass(children'[e][k], opts'[last'.m].class)
        /\ (last'.op = "anchor")
              => \A e \in Elems :
                    ( /\ doc.els[e].tag \in DefaultTags
                      /\ ~carriesAnchor(children, e) )
                       => \E k \in created(e) :
                             /\ hasMarkerClass(children'[e][k])
                             /\ hasClass(children'[e][k], last'.options.class)
      ]_vars

\* The elements of a batch that carried no anchor when the call started,
\* each once, in the order of the batch.
newlyAnchored(batch) ==
    LET kept == SelectSeq([i \in 1..Len(batch) |-> i],
                          LAMBDA i : /\ ~carriesAnchor(children, batch[i])
                                     /\ \A j \in 1..(i - 1) :
                                           batch[j] # batch[i])
    IN  [k \in 1..Len(kept) |-> batch[kept[k]]]

\* els of every manager holds, each once, exactly the elements that carry
\* an anchor the manager inserted.
trackedMatches ==
    \A m \in Managers :
       /\ \A i \in 1..Len(els[m]) : \A j \in 1..Len(els[m]) :
             i # j => els[m][i] # els[m][j]
       /\ {els[m][i] : i \in 1..Len(els[m])}
             = {e \in Elems : \E k \in 1..Len(children[e]) :
                                 /\ children[e][k].kind = "a"
                                 /\ children[e][k].by = m}

\* C22: the tracked set matches the anchored elements.  With one manager
\* and calls that complete normally, els holds exactly the elements that
\* carry an anchor of the manager: it does at the start, and a call that
\* completes keeps it so.  Each add that completes appends to els exactly
\* the resolved elements that got a new anchor, in resolution order, and
\* none that it skipped; each remove that completes leaves the others in
\* their order.
C22_TrackedMatchesAnchored ==
    /\ trackedMatches
    /\ [][ (trackedMatches /\ last'.threw = "") => trackedMatches' ]_vars
    /\ [][ /\ (last'.op = "add" /\ last'.threw = "")
                 => els'[last'.m]
                       = els[last'.m] \o newlyAnchored(resolved(last'))
           /\ (last'.op = "anchor" /\ last'.threw = "")
                 => els'[last'.m] = newlyAnchored(resolved(last'))
           /\ (last'.op \in {"remove", "removeAll"} /\ last'.threw = "")
                 => els'[last'.m]
                       = SelectSeq(els[last'.m],
                                   LAMBDA e : carriesAnchor(children', e))
         ]_vars

\* An add whose batch held an element it skipped and one it anchored has
\* completed: els holds both, the one anchored earlier first, against the
\* order of the document.
C22_Witness ==
    /\ last.op = "add" /\ last.threw = ""
    /\ Len(resolved(last)) >= 2
    /\ Len(els[last.m]) = 2
    /\ els[last.m][1] > els[last.m][2]
    /\ trackedMatches

\* C23 as claimed: every anchor links to its own heading.  After any add,
\* the href of each anchor it inserted ends in '#' and the id attribute the
\* heading then has, on all three identifier paths.
C23_HrefIsOwnId ==
    [][ (last'.op \in {"add", "anchor"})
           => \A e \in Elems : \A k \in created(e) :
                 /\ idAttr'[e].has
                 /\ endsWith(children'[e][k].href,
                             <<"#">> \o idAttr'[e].val) ]_vars

\* C23 amended: on the pre-existing id path and on the generated path the
\* href of each anchor add inserted ends in '#' and the heading's id
\* attribute; on the data-anchor-id path (a heading with that attribute
\* and no id) it ends in '#' and the data-anchor-id value, and the heading
\* still has no id attribute.
C23_HrefIsResolvedId ==
    [][ (last'.op \in {"add", "anchor"})
           => \A e \in Elems : \A k \in created(e) :
                 IF ~idAttr[e].has /\ doc.els[e].dataAnchorId.has
                 THEN /\ ~idAttr'[e].has
                      /\ endsWith(children'[e][k].href,
                                  <<"#">> \o doc.els[e].dataAnchorId.val)
                 ELSE /\ idAttr'[e].has
                      /\ endsWith(children'[e][k].href,
                                  <<"#">> \o idAttr'[e].val) ]_vars

\* A heading with a data-anchor-id and no id carries an anchor to
\* '#custom', and a heading that brought its id carries one to that id.
C23_Witness ==
    /\ \E e \in Elems :
          /\ doc.els[e].dataAnchorId = Attr(Custom) /\ ~idAttr[e].has
          /\ \E k \in 1..Len(children[e]) :
                /\ children[e][k].kind = "a"
                /\ endsWith(children[e][k].href, <<"#">> \o Custom)
    /\ \E e \in Elems :
          /\ doc.els[e].id.has
          /\ \E k \in 1..Len(children[e]) :
                /\ children[e][k].kind = "a"
                /\ endsWith(children[e][k].href, <<"#">> \o idAttr[e].val)

\* C24: add/remove round trip.  No call changes an id attribute that is
\* there (so remove changes none, and a second add gives no new suffix);
\* and when add(S); remove(S); add(S) has run, every element of S that
\* had no id at the start carries exactly one anchor and is in els exactly
\* once.
C24_RoundTrip ==
    /\ [][ /\ \A e \in Elems : idAttr[e].has => idAttr'[e] = idAttr[e]
           /\ last'.op \in {"remove", "removeAll"} => idAttr' = idAttr ]_vars
    /\ [](last.trip = 3
             => \A i \in 1..Len(resolved(last)) :
                   LET e == resolved(last)[i]
                   IN  ~doc.els[e].id.has
                          => /\ Len(anchorsOf(children, e)) = 1
                             /\ Len(SelectSeq(els[last.m],
                                              LAMBDA f : f = e)) = 1)

\* The elements a remove or removeAll works on.
targets ==
    IF last'.op = "removeAll" THEN els[last'.m] ELSE resolved(last')

\* C25: remove keeps tracking and the document in step, nested targets
\* included.  However a remove ends, normally or with an error, no element
\* that it dropped from els still has its own anchor attached, and no
\* element other than a resolved one has lost its anchor.
C25_RemoveKeepsInStep ==
    [][ (last'.op \in {"remove", "removeAll"})
           => /\ \A e \in Elems :
                    ( /\ arrayIndexOf(els[last'.m], e) # -1
                      /\ arrayIndexOf(els'[last'.m], e) = -1 )
                       => ~carriesAnchor(children', e)
              /\ \A e \in Elems :
                    (carriesAnchor(children, e) /\ ~carriesAnchor(children', e))
                       => \E i \in 1..Len(targets) : targets[i] = e ]_vars

====
